---- MODULE Spec2Model ----
(***************************************************************************)
(* SubtitleRenderer (src/unnamed/part_000): track loading, VTT / ASS       *)
(* parsing, cue scheduling (update), animation (applyAnimations),          *)
(* rendering and resize, as a state machine over the renderer's fields.    *)
(*                                                                         *)
(* Numbers are JavaScript numbers modelled as exact rationals [n, d] with  *)
(* d > 0, plus NaN = [0,0], +Infinity = [1,0], -Infinity = [-1,0];         *)
(* floating-point rounding is not modelled.  Times are seconds, as in the  *)
(* code.  A string is a sequence of tokens [t, a]: a plain lexeme has      *)
(* a = <<>>, a numeric lexeme is t = "num" with a = <<n, d>>, an override  *)
(* tag is t = its name with a = its arguments.  A track text is a sequence *)
(* of lines already split into the pieces the code's split() calls yield.  *)
(***************************************************************************)
EXTENDS Integers, Sequences, FiniteSets, TLC

\* ------------------------------------------------------------------ bounds
MaxTime == 3
MaxLoads == 2

\* ----------------------------------------------------------------- numbers
RECURSIVE Gcd(_, _)
Gcd(a, b) == IF b = 0 THEN a ELSE Gcd(b, a % b)

Abs(x) == IF x < 0 THEN -x ELSE x

Sign(x) == IF x < 0 THEN -1 ELSE IF x > 0 THEN 1 ELSE 0

NaN == [n |-> 0, d |-> 0]

Q(n, d) ==
    IF d = 0 THEN [n |-> Sign(n), d |-> 0]
    ELSE LET g == Gcd(Abs(n), Abs(d))
             s == IF d < 0 THEN -1 ELSE 1
         IN [n |-> (s * n) \div g, d |-> (s * d) \div g]

I(k) == [n |-> k, d |-> 1]

IsNaN(x) == x.d = 0 /\ x.n = 0

IsFinite(x) == x.d # 0

\* x is falsy when it is 0 or NaN (undefined is modelled apart, see Undef)
Truthy(x) == x.n # 0

Mul(x, y) ==
    IF IsNaN(x) \/ IsNaN(y) THEN NaN
    ELSE IF x.d = 0 \/ y.d = 0 THEN [n |-> Sign(x.n) * Sign(y.n), d |-> 0]
    ELSE Q(x.n * y.n, x.d * y.d)

Add(x, y) ==
    IF IsNaN(x) \/ IsNaN(y) THEN NaN
    ELSE IF x.d = 0 /\ y.d = 0 THEN (IF x.n = y.n THEN x ELSE NaN)
    ELSE IF x.d = 0 THEN x
    ELSE IF y.d = 0 THEN y
    ELSE Q(x.n * y.d + y.n * x.d, x.d * y.d)

Neg(x) == [n |-> -x.n, d |-> x.d]

Sub(x, y) == Add(x, Neg(y))

Div(x, y) ==
    IF IsNaN(x) \/ IsNaN(y) THEN NaN
    ELSE IF y.d = 0 THEN (IF x.d = 0 THEN NaN ELSE I(0))
    ELSE IF y.n = 0 THEN (IF x.n = 0 THEN NaN ELSE [n |-> Sign(x.n), d |-> 0])
    ELSE IF x.d = 0 THEN [n |-> Sign(x.n) * Sign(y.n), d |-> 0]
    ELSE Q(x.n * y.d, x.d * y.n)

\* x < y; every comparison with NaN is false
Lt(x, y) ==
    IF IsNaN(x) \/ IsNaN(y) THEN FALSE
    ELSE IF x.d = 0 /\ y.d = 0 THEN x.n < y.n
    ELSE IF x.d = 0 THEN x.n < 0
    ELSE IF y.d = 0 THEN y.n > 0
    ELSE x.n * y.d < y.n * x.d

Le(x, y) == ~IsNaN(x) /\ ~IsNaN(y) /\ ~Lt(y, x)

Gt(x, y) == Lt(y, x)

Ge(x, y) == Le(y, x)

\* x === y on numbers: NaN equals nothing
StrictEq(x, y) == ~IsNaN(x) /\ x = y

\* x || d on numbers
OrElse(x, d) == IF Truthy(x) THEN x ELSE d

\* Math.min / Math.max: NaN if either argument is NaN
Min(x, y) == IF IsNaN(x) \/ IsNaN(y) THEN NaN ELSE IF Lt(y, x) THEN y ELSE x

Max(x, y) == IF IsNaN(x) \/ IsNaN(y) THEN NaN ELSE IF Lt(x, y) THEN y ELSE x

\* truncation toward zero of a finite number (the integer parseInt reads)
Trunc(x) ==
    IF x.d = 0 THEN NaN
    ELSE IF x.n >= 0 THEN I(x.n \div x.d) ELSE I(-((-x.n) \div x.d))

\* ----------------------------------------------------------------- strings
W(s) == [t |-> s, a |-> <<>>]

Num(n, d) == [t |-> "num", a |-> <<n, d>>]

Tag(name, args) == [t |-> name, a |-> args]

\* the JavaScript value undefined, where a string is expected
Undef == <<[t |-> "<undefined>", a |-> <<>>]>>

RECURSIVE TrimLeft(_)
TrimLeft(s) ==
    IF s # <<>> /\ Head(s) = W(" ") THEN TrimLeft(Tail(s)) ELSE s

RECURSIVE TrimRight(_)
TrimRight(s) ==
    IF s # <<>> /\ s[Len(s)] = W(" ") THEN TrimRight(SubSeq(s, 1, Len(s) - 1)) ELSE s

\* String.prototype.trim
Trim(s) == TrimRight(TrimLeft(s))

\* String.prototype.split(sep) for a one-token separator
RECURSIVE SplitAcc(_, _, _, _)
SplitAcc(s, sep, cur, acc) ==
    IF s = <<>> THEN Append(acc, cur)
    ELSE IF Head(s) = sep THEN SplitAcc(Tail(s), sep, <<>>, Append(acc, cur))
    ELSE SplitAcc(Tail(s), sep, Append(cur, Head(s)), acc)

Split(s, sep) == SplitAcc(s, sep, <<>>, <<>>)

\* Array.prototype.join(sep)
RECURSIVE Join(_, _)
Join(parts, sep) ==
    IF parts = <<>> THEN <<>>
    ELSE IF Len(parts) = 1 THEN parts[1]
    ELSE parts[1] \o <<sep>> \o Join(Tail(parts), sep)

\* decimal digits of a natural number, one token per digit
RECURSIVE Digits(_)
Digits(k) ==
    LET ds == <<"0", "1", "2", "3", "4", "5", "6", "7", "8", "9">>
    IN IF k < 10 THEN <<W(ds[k + 1])>> ELSE Digits(k \div 10) \o <<W(ds[(k % 10) + 1])>>

\* String(x) of a number: integers print their digits; a non-integer prints
\* as numerator "/" denominator (an injective stand-in for its decimals)
NumToStr(x) ==
    IF IsNaN(x) THEN <<W("NaN")>>
    ELSE IF x.d = 0 THEN (IF x.n > 0 THEN <<W("Infinity")>> ELSE <<W("-"), W("Infinity")>>)
    ELSE (IF x.n < 0 THEN <<W("-")>> ELSE <<>>)
         \o Digits(Abs(x.n))
         \o (IF x.d = 1 THEN <<>> ELSE <<W("/")>> \o Digits(x.d))

\* String(v) of a string-or-undefined value
ToStr(s) == IF s = Undef THEN <<W("undefined")>> ELSE s

\* parseFloat: the leading numeric lexeme, else NaN
parseFloat(s) ==
    LET u == TrimLeft(ToStr(s))
    IN IF u = <<>> THEN NaN
       ELSE IF Head(u).t = "num" THEN Q(Head(u).a[1], Head(u).a[2])
       ELSE IF Head(u).t = "Infinity" THEN [n |-> 1, d |-> 0]
       ELSE NaN

\* parseInt: the integer part of the leading numeric lexeme, else NaN
parseInt(s) ==
    LET u == TrimLeft(ToStr(s))
    IN IF u = <<>> THEN NaN
       ELSE IF Head(u).t = "num" THEN Trunc(Q(Head(u).a[1], Head(u).a[2]))
       ELSE NaN

\* obj[key], undefined when the key is absent
Prop(obj, key) == IF key \in DOMAIN obj THEN obj[key] ELSE Undef

\* ------------------------------------------------------------- time codec
\* two parts read as hours and minutes
parseTimeTwoAsHours(timeStr) ==
    LET parts == Split(Trim(timeStr), W(":"))
    IN IF Len(parts) = 3
         THEN Add(Add(Mul(parseInt(parts[1]), I(3600)), Mul(parseInt(parts[2]), I(60))),
                  parseFloat(parts[3]))
       ELSE IF Len(parts) = 2
         THEN Add(Mul(parseInt(parts[1]), I(3600)), Mul(parseFloat(parts[2]), I(60)))
       ELSE I(0)

parseTime(timeStr) ==
    LET parts == Split(Trim(timeStr), W(":"))
    IN IF Len(parts) = 3
         THEN Add(Add(Mul(parseInt(parts[1]), I(3600)), Mul(parseInt(parts[2]), I(60))),
                  parseFloat(parts[3]))
       ELSE IF Len(parts) = 2
         THEN Add(Mul(parseInt(parts[1]), I(60)), parseFloat(parts[2]))
       ELSE I(0)

\* timeStr.trim() on undefined raises a TypeError
parseTimeThrows(timeStr) == timeStr = Undef

parseASSTime(timeStr) == parseTime(timeStr)

\* ------------------------------------------------------------ colour codec
\* a colour token is a sequence of characters: hex digits, "&H" and "&"

\* while (hex.length < 6) hex = '0' + hex
RECURSIVE PadHex(_)
PadHex(hex) == IF Len(hex) < 6 THEN PadHex(<<"0">> \o hex) ELSE hex

\* parseInt(hex.substring(i - 1, i + 1), 16), i counted from 1
Byte(hex, i) ==
    LET digits == <<"0", "1", "2", "3", "4", "5", "6", "7",
                    "8", "9", "A", "B", "C", "D", "E", "F">>
        Value(c) == (CHOOSE k \in 1..16 : digits[k] = c) - 1
    IN 16 * Value(hex[i]) + Value(hex[i + 1])

\* the colour with the digits read as RR GG BB
assColorToCssAsRGB(assColor) ==
    LET hex == PadHex(SelectSeq(assColor, LAMBDA c : c \notin {"&H", "&"}))
    IN IF Len(hex) = 8
         THEN Tag("rgba", <<Byte(hex, 3), Byte(hex, 5), Byte(hex, 7),
                            (200 * (255 - Byte(hex, 1)) + 255) \div 510>>)
       ELSE Tag("rgba", <<Byte(hex, 1), Byte(hex, 3), Byte(hex, 5), 100>>)

\* the rgba(r, g, b, a) string; its last argument is a.toFixed(2) in
\* hundredths: 1 - alphaVal / 255 rounded to the nearest hundredth
assColorToCss(assColor) ==
    LET hex == PadHex(SelectSeq(assColor, LAMBDA c : c \notin {"&H", "&"}))
    IN IF Len(hex) = 8
         THEN Tag("rgba", <<Byte(hex, 7), Byte(hex, 5), Byte(hex, 3),
                            (200 * (255 - Byte(hex, 1)) + 255) \div 510>>)
       ELSE Tag("rgba", <<Byte(hex, 5), Byte(hex, 3), Byte(hex, 1), 100>>)

\* ------------------------------------------------------- override tags
\* text.match(/\\tag.../): the arguments of the first tag of that name, or <<>>
\* the arguments of the last tag of that name
LastTag(text, name) ==
    IF \A i \in 1..Len(text) : text[i].t # name \/ text[i].a = <<>> THEN <<>>
    ELSE text[CHOOSE i \in 1..Len(text) :
                 /\ text[i].t = name /\ text[i].a # <<>>
                 /\ \A j \in (i + 1)..Len(text) : text[j].t # name \/ text[j].a = <<>>].a

RECURSIVE FirstTag(_, _)
FirstTag(text, name) ==
    IF text = <<>> THEN <<>>
    ELSE IF Head(text).t = name /\ Head(text).a # <<>> THEN Head(text).a
    ELSE FirstTag(Tail(text), name)

OnlyIf(cond, key, val) == IF cond THEN key :> val ELSE <<>>

parseOverrides(text) ==
    LET posMatch  == FirstTag(text, "pos")
        anMatch   == FirstTag(text, "an")
        fadMatch  == FirstTag(text, "fad")
        moveMatch == FirstTag(text, "move")
        frxMatch  == FirstTag(text, "frx")
        fryMatch  == FirstTag(text, "fry")
        frzMatch  == FirstTag(text, "frz")
        frMatch   == FirstTag(text, "fr")
        bordMatch == FirstTag(text, "bord")
        shadMatch == FirstTag(text, "shad")
        blurMatch == FirstTag(text, "blur")
        fsMatch   == FirstTag(text, "fs")
        cMatch    == FirstTag(text, "c")
        fnMatch   == FirstTag(text, "fn")
    IN OnlyIf(posMatch # <<>>, "pos", [x |-> I(posMatch[1]), y |-> I(posMatch[2])])
       @@ OnlyIf(anMatch # <<>>, "alignment", I(anMatch[1]))
       @@ OnlyIf(fadMatch # <<>>, "fade", [t1 |-> I(fadMatch[1]), t2 |-> I(fadMatch[2])])
       @@ OnlyIf(moveMatch # <<>>, "move",
                 [x1 |-> I(moveMatch[1]), y1 |-> I(moveMatch[2]),
                  x2 |-> I(moveMatch[3]), y2 |-> I(moveMatch[4])]
                 @@ (IF Len(moveMatch) = 6
                       THEN [t1 |-> I(moveMatch[5]), t2 |-> I(moveMatch[6])]
                       ELSE <<>>))
       @@ OnlyIf(frxMatch # <<>> \/ fryMatch # <<>> \/ frzMatch # <<>> \/ frMatch # <<>>,
                 "rotation",
                 [x |-> IF frxMatch # <<>> THEN I(frxMatch[1]) ELSE I(0),
                  y |-> IF fryMatch # <<>> THEN I(fryMatch[1]) ELSE I(0),
                  z |-> IF frzMatch # <<>> THEN I(frzMatch[1])
                        ELSE IF frMatch # <<>> THEN I(frMatch[1]) ELSE I(0)])
       @@ OnlyIf(bordMatch # <<>>, "border", I(bordMatch[1]))
       @@ OnlyIf(shadMatch # <<>>, "shadow", I(shadMatch[1]))
       @@ OnlyIf(blurMatch # <<>>, "blur", I(blurMatch[1]))
       @@ OnlyIf(fsMatch # <<>>, "fontSize", I(fsMatch[1]))
       @@ OnlyIf(cMatch # <<>>, "color", assColorToCss(cMatch))
       @@ OnlyIf(fnMatch # <<>>, "fontName", fnMatch)

\* rawText.replace(/{[^}]+}/g, '').replace(/\\N/g, '<br>').replace(/\\n/g, ' ')
RECURSIVE cleanText(_)
cleanText(rawText) ==
    IF rawText = <<>> THEN <<>>
    ELSE LET c == Head(rawText)
         IN (IF c.a # <<>> /\ c.t # "num" THEN <<>>
             ELSE IF c = W("\\N") THEN <<W("<br>")>>
             ELSE IF c = W("\\n") THEN <<W(" ")>>
             ELSE <<c>>) \o cleanText(Tail(rawText))

\* ------------------------------------------------------------- ASS parser
\* a Format order: an object name -> index, kept in insertion order
RECURSIVE KeyPos(_, _)
KeyPos(order, key) ==
    IF order = <<>> THEN 0
    ELSE IF order[Len(order)].key = key THEN Len(order)
    ELSE KeyPos(SubSeq(order, 1, Len(order) - 1), key)

SetKey(order, key, idx) ==
    LET p == KeyPos(order, key)
    IN IF p = 0 THEN Append(order, [key |-> key, idx |-> idx])
       ELSE [order EXCEPT ![p].idx = idx]

\* parts.forEach((p, idx) => order[p] = idx)
RECURSIVE SetKeys(_, _, _)
SetKeys(order, parts, idx) ==
    IF parts = <<>> THEN order
    ELSE SetKeys(SetKey(order, Head(parts), idx), Tail(parts), idx + 1)

\* !order[key]: the key is absent or its index is 0
Falsy(order, key) ==
    LET p == KeyPos(order, key) IN p = 0 \/ order[p].idx = 0

\* Object.keys(order).sort((a, b) => order[a] - order[b]), a stable sort
RECURSIVE SortedKeys(_)
SortedKeys(order) ==
    IF order = <<>> THEN <<>>
    ELSE LET m == CHOOSE i \in 1..Len(order) :
                    /\ \A j \in 1..Len(order) : order[i].idx <= order[j].idx
                    /\ \A j \in 1..(i - 1) : order[j].idx > order[i].idx
             rest == [j \in 1..(Len(order) - 1) |-> IF j < m THEN order[j] ELSE order[j + 1]]
         IN <<order[m].key>> \o SortedKeys(rest)

\* a line of a track text: its kind (what startsWith / includes tell of it),
\* a name (section header or key), the names of a Format line, and the pieces
\* its content splits into
Line(k, name, cols, vals) == [k |-> k, name |-> name, cols |-> cols, vals |-> vals]

\* styles[key], undefined when the key is absent
StyleOf(styles, key) == IF ToStr(key) \in DOMAIN styles THEN styles[ToStr(key)] ELSE <<>>

\* a Style: row under the current style Format order
StyleRow(styleFormatOrder, parts) ==
    LET used == {p \in 1..Len(styleFormatOrder) : styleFormatOrder[p].idx < Len(parts)}
    IN [key \in {styleFormatOrder[p].key : p \in used} |->
          Trim(parts[styleFormatOrder[KeyPos(styleFormatOrder, key)].idx + 1])]

\* the event object: event[formatKeys[i]] = metaValues[i], event['Text'] = textPart
EventOf(formatKeys, targetCommaCount, metaValues, textPart) ==
    ("Text" :> textPart)
    @@ [key \in {formatKeys[i] : i \in 1..targetCommaCount} \cap
                {formatKeys[i] : i \in 1..Len(metaValues)} |->
          metaValues[CHOOSE i \in 1..Len(metaValues) : formatKeys[i] = key]]

\* the content split at every comma: Text is the piece of its column only
DialogueEventSplitAll(formatOrder, vals) ==
    IF Len(formatOrder) - 1 >= 1 /\ Len(vals) - 1 >= Len(formatOrder) - 1
      THEN EventOf(SortedKeys(formatOrder), Len(formatOrder) - 1,
                   [i \in 1..(Len(formatOrder) - 1) |-> Trim(vals[i])],
                   vals[Len(formatOrder)])
    ELSE EventOf(SortedKeys(formatOrder), Len(formatOrder) - 1,
                 <<<<>>>>, Join(vals, W(",")))

\* the event object of a Dialogue: row under the current Events Format order;
\* the content splits at the targetCommaCount-th comma when it has that many
DialogueEvent(formatOrder, vals) ==
    IF Len(formatOrder) - 1 >= 1 /\ Len(vals) - 1 >= Len(formatOrder) - 1
      THEN EventOf(SortedKeys(formatOrder), Len(formatOrder) - 1,
                   [i \in 1..(Len(formatOrder) - 1) |-> Trim(vals[i])],
                   Join(SubSeq(vals, Len(formatOrder), Len(vals)), W(",")))
    ELSE EventOf(SortedKeys(formatOrder), Len(formatOrder) - 1,
                 <<<<>>>>, Join(vals, W(",")))

EventField(event, key) == IF key \in DOMAIN event THEN event[key] ELSE Undef

\* the cue pushed for an event whose times are start and end
PushCue(st, event, start, end) ==
    IF IsNaN(start) \/ IsNaN(end) THEN st
    ELSE [st EXCEPT !.cues = Append(@,
            [start |-> start,
             end |-> end,
             text |-> cleanText(event["Text"]),
             rawText |-> event["Text"],
             styleName |-> EventField(event, "Style"),
             overrides |-> parseOverrides(event["Text"]),
             format |-> "ass"])]

\* the times of an event are parsed; parseTime raises on a missing field
DialogueCue(st, event) ==
    IF parseTimeThrows(EventField(event, "Start")) \/ parseTimeThrows(EventField(event, "End"))
      THEN [st EXCEPT !.threw = TRUE]
    ELSE PushCue(st, event, parseASSTime(EventField(event, "Start")),
                 parseASSTime(EventField(event, "End")))

\* a key: value line of [Script Info]
ScriptInfo(st, name, value) ==
    IF name = "PlayResX" THEN [st EXCEPT !.assParams.playResX = parseInt(value)]
    ELSE IF name = "PlayResY" THEN [st EXCEPT !.assParams.playResY = parseInt(value)]
    ELSE st

\* styles[style.Name] = style
AddStyle(st, style) ==
    [st EXCEPT !.styles = (ToStr(Prop(style, "Name")) :> style) @@ @]

\* one line of parseASS; st.threw records an exception leaving the loop
ParseASSLine(st, line) ==
    IF line.k = "blank" THEN st
    ELSE IF line.k = "section" THEN [st EXCEPT !.section = line.name]
    ELSE IF st.section = "[Script Info]" THEN
      IF line.k = "kv" THEN ScriptInfo(st, line.name, Trim(line.vals[1])) ELSE st
    ELSE IF st.section = "[V4+ Styles]" \/ st.section = "[V4 Styles]" THEN
      IF line.k = "format"
        THEN [st EXCEPT !.styleFormatOrder = SetKeys(@, line.cols, 0)]
      ELSE IF line.k = "style"
        THEN AddStyle(st, StyleRow(st.styleFormatOrder, line.vals))
      ELSE st
    ELSE IF st.section = "[Events]" THEN
      IF line.k = "format"
        THEN [st EXCEPT !.formatOrder = SetKeys(@, line.cols, 0)]
      ELSE IF line.k = "dialogue"
        THEN IF \/ Falsy(st.formatOrder, "Start")
                \/ Falsy(st.formatOrder, "End")
                \/ Falsy(st.formatOrder, "Text")
               THEN st
             ELSE DialogueCue(st, DialogueEvent(st.formatOrder, line.vals))
      ELSE st
    ELSE st

RECURSIVE ParseASSLines(_, _)
ParseASSLines(st, lines) ==
    IF lines = <<>> \/ st.threw THEN st
    ELSE ParseASSLines(ParseASSLine(st, Head(lines)), Tail(lines))

\* parseASS on the renderer s: cues, styles and assParams after the call, and
\* whether it raised
parseASS(s, lines) ==
    ParseASSLines([section |-> "", formatOrder |-> <<>>, styleFormatOrder |-> <<>>,
                   cues |-> s.cues, styles |-> s.styles, assParams |-> s.assParams,
                   threw |-> FALSE], lines)

\* ------------------------------------------------------------- VTT parser
\* the text of a line as it stands in the input
LineText(line) ==
    IF line.k = "timing" THEN Join(line.vals, W("-->"))
    ELSE IF line.vals = <<>> THEN <<W(line.name)>>
    ELSE line.vals[1]

\* lines[i].trim() === ''
IsBlank(line) == line.k = "blank"

\* /^m\s+-?\d+/.test(lineStr.trim())
DrawingAfterM(v) ==
    v # <<>> /\ (v[1].t = "num" \/ (v[1] = W("-") /\ Len(v) >= 2 /\ v[2].t = "num"))

\* the filter lets every line through
IsDrawingNever(line) == FALSE

IsDrawing(line) ==
    /\ Len(Trim(LineText(line))) >= 3
    /\ Trim(LineText(line))[1] = W("m")
    /\ Trim(LineText(line))[2] = W(" ")
    /\ DrawingAfterM(TrimLeft(Tail(Trim(LineText(line)))))

\* the payload loop: lines from i up to a blank line or the end of input
RECURSIVE CollectPayload(_, _, _)
CollectPayload(lines, i, payload) ==
    IF i <= Len(lines) /\ ~IsBlank(lines[i])
      THEN CollectPayload(lines, i + 1,
                          IF IsDrawing(lines[i]) THEN payload
                          ELSE Append(payload, LineText(lines[i])))
      ELSE [i |-> i, payload |-> payload]

\* textContent.replace(/<v [^>]+>/g, '').replace(/<\/v>/g, '')
RECURSIVE StripVoice(_)
StripVoice(text) ==
    IF text = <<>> THEN <<>>
    ELSE (IF Head(text).t = "<v" \/ Head(text) = W("</v>") THEN <<>> ELSE <<Head(text)>>)
         \o StripVoice(Tail(text))

\* this.cues.push(...) unless the cue repeats the last one
PushVTT(cues, start, end, textContent) ==
    IF /\ Len(cues) > 0
       /\ StrictEq(cues[Len(cues)].start, start)
       /\ StrictEq(cues[Len(cues)].end, end)
       /\ cues[Len(cues)].text = textContent
      THEN cues
    ELSE Append(cues, [start |-> start,
                       end |-> end,
                       text |-> textContent,
                       html |-> StripVoice(textContent),
                       format |-> "vtt"])

\* the cue of the timing line j with the payload collected after it, if any
TimedCue(cues, timing, payload) ==
    IF payload = <<>> THEN cues
    ELSE PushVTT(cues, parseTime(Trim(timing.vals[1])), parseTime(Trim(timing.vals[2])),
                 Join(payload, W("<br>")))

\* the while loop of parseVTT; i is 1-based
RECURSIVE ParseVTTLoop(_, _, _)
RECURSIVE ParseVTTAt(_, _, _)
RECURSIVE ParseVTTPayload(_, _, _, _)
ParseVTTLoop(lines, i, cues) ==
    IF i > Len(lines) THEN cues
    ELSE IF IsBlank(lines[i]) \/ lines[i].k = "note" THEN ParseVTTLoop(lines, i + 1, cues)
    ELSE ParseVTTAt(lines, IF lines[i].k # "timing" THEN i + 1 ELSE i, cues)

\* the loop body past the optional identifier line
ParseVTTAt(lines, j, cues) ==
    IF j > Len(lines) THEN cues
    ELSE IF lines[j].k = "timing"
      THEN ParseVTTPayload(lines, j, CollectPayload(lines, j + 1, <<>>), cues)
    ELSE ParseVTTLoop(lines, j + 1, cues)

\* the loop goes on after the payload of the timing line j
ParseVTTPayload(lines, j, got, cues) ==
    ParseVTTLoop(lines, got.i, TimedCue(cues, lines[j], got.payload))

\* parseVTT on the renderer s: the cue list after the call
parseVTT(s, lines) ==
    ParseVTTLoop(lines, IF lines # <<>> /\ lines[1].k = "webvtt" THEN 2 ELSE 1, s.cues)

\* -------------------------------------------------------------- rendering
\* CSS values: a length in px, a percentage, a keyword, a plain number
Px(x) == [u |-> "px", v |-> x]

Pct(k) == [u |-> "%", v |-> I(k)]

Kw(w) == [u |-> w, v |-> I(0)]

Plain(x) == [u |-> "", v |-> x]

\* element.style[key] = val
SetP(st, key, val) == (key :> val) @@ st

\* element.style[key] = x + 'px': the assignment is dropped when x is not finite
SetPx(st, key, x) == IF IsFinite(x) THEN SetP(st, key, Px(x)) ELSE st

\* translate(tx, ty) of an alignment code
AnchorX(alignment) ==
    IF alignment.d = 1 /\ alignment.n \in {1, 4, 7} THEN 0
    ELSE IF alignment.d = 1 /\ alignment.n \in {3, 6, 9} THEN -100
    ELSE -50

AnchorY(alignment) ==
    IF alignment.d = 1 /\ alignment.n \in {1, 2, 3} THEN -100
    ELSE IF alignment.d = 1 /\ alignment.n \in {7, 8, 9} THEN 0
    ELSE -50

\* the div after applyAlignmentTransform(div, alignment)
applyAlignmentTransform(div, alignment) ==
    LET translate == <<Tag("translate", <<AnchorX(alignment), AnchorY(alignment)>>)>>
        hasRot == "rotation" \in DOMAIN div.dataset
        transform == IF hasRot THEN translate \o <<div.dataset["rotation"]>> ELSE translate
        st1 == IF hasRot THEN SetP(div.style, "perspective", Px(I(800))) ELSE div.style
    IN [div EXCEPT !.style = SetP(st1, "transform", transform)]

IsAlign(alignment, codes) == alignment.d = 1 /\ alignment.n \in codes

\* a margin of the style, scaled: (parseInt(style.MarginL) || 10) * scaleX
Margin(style, key, scale) == Mul(OrElse(parseInt(Prop(style, key)), I(10)), scale)

\* vertical placement of applyFlexAlignment
FlexVertical(st, alignment, mV) ==
    IF IsAlign(alignment, {7, 8, 9}) THEN SetP(SetPx(st, "top", mV), "bottom", Kw("auto"))
    ELSE IF IsAlign(alignment, {4, 5, 6})
      THEN SetP(SetP(SetP(st, "top", Pct(50)), "bottom", Kw("auto")),
                "transform", <<Tag("translateY", <<-50>>)>>)
    ELSE SetPx(SetP(st, "top", Kw("auto")), "bottom", mV)

\* if (div.dataset.rotation): the rotation joins the transform
FlexRotation(st, dataset) ==
    IF "rotation" \notin DOMAIN dataset THEN st
    ELSE IF "transform" \in DOMAIN st
      THEN SetP(st, "transform", st["transform"] \o <<dataset["rotation"]>>)
    ELSE SetP(st, "transform", <<dataset["rotation"]>>)

\* horizontal placement of applyFlexAlignment
FlexHorizontal(st, dataset, alignment, mL, mR) ==
    IF IsAlign(alignment, {1, 4, 7})
      THEN SetP(SetP(SetP(SetPx(st, "left", mL), "right", Kw("auto")),
                     "textAlign", Kw("left")), "width", Kw("auto"))
    ELSE IF IsAlign(alignment, {3, 6, 9})
      THEN SetP(SetP(SetPx(SetP(st, "left", Kw("auto")), "right", mR),
                     "textAlign", Kw("right")), "width", Kw("auto"))
    ELSE FlexRotation(
           SetPx(SetPx(SetP(SetP(SetP(SetP(st, "left", Px(I(0))), "width", Pct(100)),
                                 "textAlign", Kw("center")), "boxSizing", Kw("border-box")),
                       "paddingLeft", mL),
                 "paddingRight", mR),
           dataset)

\* the div after applyFlexAlignment(div, alignment, style, scaleX, scaleY)
applyFlexAlignment(div, alignment, style, scaleX, scaleY) ==
    [div EXCEPT !.style =
        FlexHorizontal(
          FlexVertical(SetP(SetP(@, "position", Kw("absolute")), "whiteSpace", Kw("nowrap")),
                       alignment, Margin(style, "MarginV", scaleY)),
          div.dataset, alignment,
          Margin(style, "MarginL", scaleX), Margin(style, "MarginR", scaleX))]

\* the text-shadow that draws an outline of width o and a shadow at distance sh
TextShadow(o, sh, blur) == [outline |-> o, shadow |-> sh, blur |-> blur]

\* cue.overrides[key] is there
HasOverride(cue, key) == "overrides" \in DOMAIN cue /\ key \in DOMAIN cue.overrides

\* this.styles[cue.styleName] || this.styles['Default'] || {}
CueStyle(s, cue) ==
    IF ToStr(Prop(cue, "styleName")) \in DOMAIN s.styles
      THEN StyleOf(s.styles, Prop(cue, "styleName"))
    ELSE StyleOf(s.styles, <<W("Default")>>)

\* the alignment of the style, or the override's
CueAlignment(cue, style) ==
    IF HasOverride(cue, "alignment") /\ Truthy(cue.overrides["alignment"])
      THEN cue.overrides["alignment"]
    ELSE OrElse(parseInt(Prop(style, "Alignment")), I(2))

\* (parseFloat(style.Outline) || 2) * scaleX
OutlineWidth(style, scaleX) == Mul(OrElse(parseFloat(Prop(style, "Outline")), I(2)), scaleX)

\* if (cue.overrides.fontSize) div.style.fontSize = ...
FontOverride(div, cue, scaleY) ==
    IF HasOverride(cue, "fontSize") /\ Truthy(cue.overrides["fontSize"])
      THEN [div EXCEPT !.style = SetPx(@, "fontSize", Mul(cue.overrides["fontSize"], scaleY))]
    ELSE div

\* if (cue.overrides.rotation) ...
Rotation(div, cue) ==
    IF HasOverride(cue, "rotation")
      THEN [div EXCEPT !.style = SetP(@, "transformStyle", Kw("preserve-3d")),
                       !.dataset = ("rotation" :>
                          Tag("rotate", <<cue.overrides["rotation"].x.n,
                                          cue.overrides["rotation"].y.n,
                                          cue.overrides["rotation"].z.n>>)) @@ @]
    ELSE div

CurrentOutline(cue, style, scaleX) ==
    IF HasOverride(cue, "border") THEN Mul(cue.overrides["border"], scaleX)
    ELSE OutlineWidth(style, scaleX)

CurrentShadow(cue, style, scaleX) ==
    IF HasOverride(cue, "shadow") THEN Mul(cue.overrides["shadow"], scaleX)
    ELSE IF Prop(style, "BackColour") # Undef /\ Prop(style, "BackColour") # <<>>
      THEN I(1)
    ELSE I(0)

CurrentBlur(cue) == IF HasOverride(cue, "blur") THEN cue.overrides["blur"] ELSE I(0)

\* the filter and the text-shadow the overrides give
OutlineShadow(div, currentOutline, currentShadow, currentBlur) ==
    [div EXCEPT !.style =
        IF Gt(currentOutline, I(0)) \/ Gt(currentShadow, I(0))
          THEN SetP(IF Gt(currentBlur, I(0)) THEN SetP(@, "filter", Px(currentBlur)) ELSE @,
                    "textShadow",
                    TextShadow(IF Gt(currentOutline, I(0)) THEN currentOutline ELSE I(0),
                               IF Gt(currentShadow, I(0)) THEN currentShadow ELSE I(0),
                               currentBlur))
        ELSE IF Gt(currentBlur, I(0)) THEN SetP(@, "filter", Px(currentBlur))
        ELSE @]

\* absolute positioning at a point of the script, anchored by the alignment
PlaceAt(div, x, y, scaleX, scaleY, alignment) ==
    applyAlignmentTransform(
        [div EXCEPT !.style = SetPx(SetPx(SetP(@, "position", Kw("absolute")),
                                          "left", Mul(x, scaleX)),
                                    "top", Mul(y, scaleY))],
        alignment)

\* the priority turned round: pos > move > standard
PositionedPosFirst(div, cue, alignment, style, scaleX, scaleY) ==
    IF HasOverride(cue, "pos")
      THEN PlaceAt(div, cue.overrides["pos"].x, cue.overrides["pos"].y,
                   scaleX, scaleY, alignment)
    ELSE IF HasOverride(cue, "move")
      THEN PlaceAt(div, cue.overrides["move"].x1, cue.overrides["move"].y1,
                   scaleX, scaleY, alignment)
    ELSE applyFlexAlignment(div, alignment, style, scaleX, scaleY)

\* priority: move > pos > standard
Positioned(div, cue, alignment, style, scaleX, scaleY) ==
    IF HasOverride(cue, "move")
      THEN PlaceAt(div, cue.overrides["move"].x1, cue.overrides["move"].y1,
                   scaleX, scaleY, alignment)
    ELSE IF HasOverride(cue, "pos")
      THEN PlaceAt(div, cue.overrides["pos"].x, cue.overrides["pos"].y,
                   scaleX, scaleY, alignment)
    ELSE applyFlexAlignment(div, alignment, style, scaleX, scaleY)

\* the branch if (cue.overrides) of render
WithOverrides(div, cue, style, scaleX, scaleY) ==
    Positioned(
        OutlineShadow(Rotation(FontOverride(div, cue, scaleY), cue),
                      CurrentOutline(cue, style, scaleX),
                      CurrentShadow(cue, style, scaleX),
                      CurrentBlur(cue)),
        cue, CueAlignment(cue, style), style, scaleX, scaleY)

\* font styling and outline, the last statements of the loop body
FontStyling(div, fontSize, outlineWidth, scaleY) ==
    [div EXCEPT !.style =
        IF Gt(outlineWidth, I(0))
          THEN SetP(SetPx(@, "fontSize", Mul(fontSize, scaleY)),
                    "textShadow", TextShadow(outlineWidth, I(0), I(0)))
        ELSE SetPx(@, "fontSize", Mul(fontSize, scaleY))]

\* the ASS branch of the loop body
RenderAss(div, cue, style, scaleX, scaleY) ==
    FontStyling(
        IF "overrides" \in DOMAIN cue
          THEN WithOverrides(div, cue, style, scaleX, scaleY)
        ELSE applyFlexAlignment(div, CueAlignment(cue, style), style, scaleX, scaleY),
        OrElse(parseInt(Prop(style, "Fontsize")), I(20)),
        OutlineWidth(style, scaleX),
        scaleY)

\* document.createElement('div'); styles and format are those in force
NewDiv(s, cue, className) ==
    [cue |-> cue, className |-> className, innerHTML |-> cue.text,
     style |-> <<>>, dataset |-> <<>>,
     styles |-> s.track, format |-> s.format]

\* the element render builds for one cue
RenderCue(s, cue, scaleX, scaleY) ==
    IF cue.format = "vtt" THEN NewDiv(s, cue, "subtitle-line vtt-style")
    ELSE RenderAss(NewDiv(s, cue, "subtitle-line ass-style"), cue, CueStyle(s, cue),
                   scaleX, scaleY)

\* the renderer after render()
render(s) ==
    IF s.activeCues = <<>> THEN [s EXCEPT !.overlay.children = <<>>]
    ELSE
      LET containerWidth == s.overlay.clientWidth
          containerHeight == s.overlay.clientHeight
          scaled == s.format = "ass" /\ Truthy(s.assParams.playResX)
          scaleX == IF scaled THEN Div(containerWidth, s.assParams.playResX) ELSE I(1)
          scaleY == IF scaled THEN Div(containerHeight, s.assParams.playResY) ELSE I(1)
      IN [s EXCEPT !.activeScaleX = scaleX,
                   !.activeScaleY = scaleY,
                   !.overlay.children =
                       [i \in 1..Len(s.activeCues) |->
                          RenderCue(s, s.activeCues[i], scaleX, scaleY)]]

\* -------------------------------------------------------------- animation
\* a faulty fade, for C9: the fade-out is left out
FadeOpacityNoFadeOut(cue, time) ==
    LET t1 == cue.overrides["fade"].t1
        elapsed == Mul(Sub(time, cue.start), I(1000))
    IN Max(I(0), Min(I(1), IF Lt(elapsed, t1) THEN Div(elapsed, t1) ELSE I(1)))

\* the opacity applyAnimations gives a cue with \fad(t1, t2) at a time
FadeOpacity(cue, time) ==
    LET t1 == cue.overrides["fade"].t1
        t2 == cue.overrides["fade"].t2
        elapsed == Mul(Sub(time, cue.start), I(1000))
        remaining == Mul(Sub(cue.end, time), I(1000))
        opacity == IF Lt(elapsed, t1) THEN Div(elapsed, t1)
                   ELSE IF Lt(remaining, t2) THEN Div(remaining, t2)
                   ELSE I(1)
    IN Max(I(0), Min(I(1), opacity))

\* a faulty progress, for C10: a move whose endTime is not after its startTime
\* stays at its start point
MoveProgressStaysPut(cue, time) ==
    LET mv == cue.overrides["move"]
        duration == Mul(Sub(cue.end, cue.start), I(1000))
        startTime == IF "t1" \in DOMAIN mv THEN mv.t1 ELSE I(0)
        endTime == IF "t2" \in DOMAIN mv THEN mv.t2 ELSE duration
        elapsed == Mul(Sub(time, cue.start), I(1000))
    IN IF Gt(endTime, startTime)
         THEN (IF Le(elapsed, startTime) THEN I(0)
               ELSE IF Ge(elapsed, endTime) THEN I(1)
               ELSE Div(Sub(elapsed, startTime), Sub(endTime, startTime)))
       ELSE I(0)

\* the progress applyAnimations gives a cue with \move(...) at a time
MoveProgress(cue, time) ==
    LET mv == cue.overrides["move"]
        duration == Mul(Sub(cue.end, cue.start), I(1000))
        startTime == IF "t1" \in DOMAIN mv THEN mv.t1 ELSE I(0)
        endTime == IF "t2" \in DOMAIN mv THEN mv.t2 ELSE duration
        elapsed == Mul(Sub(time, cue.start), I(1000))
    IN IF Gt(endTime, startTime)
         THEN (IF Le(elapsed, startTime) THEN I(0)
               ELSE IF Ge(elapsed, endTime) THEN I(1)
               ELSE Div(Sub(elapsed, startTime), Sub(endTime, startTime)))
       ELSE I(1)

\* the point (currentX, currentY) of the move at a progress
MovePoint(cue, progress) ==
    LET mv == cue.overrides["move"]
    IN [x |-> Add(mv.x1, Mul(Sub(mv.x2, mv.x1), progress)),
        y |-> Add(mv.y1, Mul(Sub(mv.y2, mv.y1), progress))]

\* div.style.opacity = Math.max(0, Math.min(1, opacity)); NaN is no opacity
SetOpacity(div, opacity) ==
    IF IsNaN(opacity) THEN div
    ELSE [div EXCEPT !.style = SetP(@, "opacity", Plain(opacity))]

\* div.style.left / top = current point times the active scale
SetPoint(div, pt, scaleX, scaleY) ==
    [div EXCEPT !.style = SetPx(SetPx(@, "left", Mul(pt.x, scaleX)),
                                "top", Mul(pt.y, scaleY))]

\* the fade step of the loop body
AnimateFade(cue, div, time) ==
    IF HasOverride(cue, "fade") THEN SetOpacity(div, FadeOpacity(cue, time)) ELSE div

\* the move step of the loop body
AnimateMove(s, cue, div, time) ==
    IF HasOverride(cue, "move") /\ Truthy(s.activeScaleX) /\ Truthy(s.activeScaleY)
      THEN SetPoint(div, MovePoint(cue, MoveProgress(cue, time)),
                    s.activeScaleX, s.activeScaleY)
    ELSE div

\* one element after the body of the loop of applyAnimations
AnimateDiv(s, cue, div, time) == AnimateMove(s, cue, AnimateFade(cue, div, time), time)

\* a faulty tick, for C3: animations are left out
applyAnimationsSkipped(s, time) == s

\* the renderer after applyAnimations(time)
applyAnimations(s, time) ==
    IF s.activeCues = <<>> THEN s
    ELSE [s EXCEPT !.overlay.children =
            [i \in 1..Len(@) |->
               IF i <= Len(s.activeCues)
                 THEN AnimateDiv(s, s.activeCues[i], @[i], time)
                 ELSE @[i]]]

\* ------------------------------------------------------------- scheduling
\* a faulty filter, for C1: the end of the interval is left out
RECURSIVE ActiveAtHalfOpen(_, _)
ActiveAtHalfOpen(cues, time) ==
    IF cues = <<>> THEN <<>>
    ELSE (IF Ge(time, Head(cues).start) /\ Lt(time, Head(cues).end)
            THEN <<Head(cues)>> ELSE <<>>)
         \o ActiveAtHalfOpen(Tail(cues), time)

\* this.cues.filter(cue => time >= cue.start && time <= cue.end)
RECURSIVE ActiveAt(_, _)
ActiveAt(cues, time) ==
    IF cues = <<>> THEN <<>>
    ELSE (IF Ge(time, Head(cues).start) /\ Le(time, Head(cues).end)
            THEN <<Head(cues)>> ELSE <<>>)
         \o ActiveAt(Tail(cues), time)

\* list.map(c => c.rawText + c.start).join('|')
CueKeys(list) ==
    Join([i \in 1..Len(list) |-> ToStr(Prop(list[i], "rawText")) \o NumToStr(list[i].start)],
         W("|"))

\* a faulty comparison, for C2: active !== this.activeCues compares the arrays
\* by reference, and filter() returns a fresh array at every tick
KeysDifferByReference(active, current) == TRUE

\* activeKeys !== currentKeys
KeysDiffer(active, current) == CueKeys(active) # CueKeys(current)

\* if (activeKeys !== currentKeys) { this.activeCues = active; this.render() }
Refresh(s, active) ==
    IF KeysDiffer(active, s.activeCues) THEN render([s EXCEPT !.activeCues = active])
    ELSE s

\* the renderer after update() at playback time `time`
update(s, time) ==
    IF ~s.isEnabled THEN s
    ELSE applyAnimations(Refresh(s, ActiveAt(s.cues, time)), time)

\* a faulty disable, for C6: the overlay keeps its elements
disableKeepsOverlay(s) ==
    [s EXCEPT !.isEnabled = FALSE,
              !.cues = <<>>,
              !.activeCues = <<>>]

\* the renderer after disable()
disable(s) ==
    [s EXCEPT !.isEnabled = FALSE,
              !.cues = <<>>,
              !.activeCues = <<>>,
              !.overlay.children = <<>>]

\* ------------------------------------------------------------------ resize
\* the rectangle of the video content in its container
ContentRect(vidRatio, containerW, containerH) ==
    IF Gt(Div(containerW, containerH), vidRatio)
      THEN [w |-> Mul(containerH, vidRatio),
            h |-> containerH,
            x |-> Div(Sub(containerW, Mul(containerH, vidRatio)), I(2)),
            y |-> I(0)]
    ELSE [w |-> containerW,
          h |-> Div(containerW, vidRatio),
          x |-> I(0),
          y |-> Div(Sub(containerH, Div(containerW, vidRatio)), I(2))]

\* overlay.style.width = realW + 'px' ...: an assignment of a length that is
\* not finite is dropped
SizeOverlay(overlay, rect) ==
    [overlay EXCEPT !.clientWidth = IF IsFinite(rect.w) THEN rect.w ELSE @,
                    !.clientHeight = IF IsFinite(rect.h) THEN rect.h ELSE @,
                    !.left = IF IsFinite(rect.x) THEN rect.x ELSE @,
                    !.top = IF IsFinite(rect.y) THEN rect.y ELSE @]

\* a re-render that adds its elements to those the overlay holds
RerenderAppends(s) ==
    IF s.activeCues # <<>>
      THEN [render(s) EXCEPT !.overlay.children = s.overlay.children \o @]
    ELSE s

\* if (this.activeCues.length > 0) this.render()
Rerender(s) == IF s.activeCues # <<>> THEN render(s) ELSE s

\* the renderer after resize(), for the video element and window given
resize(s, vid, win) ==
    IF ~Truthy(vid.videoWidth) \/ ~Truthy(vid.videoHeight) THEN s
    ELSE Rerender([s EXCEPT !.overlay =
                     SizeOverlay(@, ContentRect(Div(vid.videoWidth, vid.videoHeight),
                                                OrElse(vid.clientWidth, win.innerWidth),
                                                OrElse(vid.clientHeight, win.innerHeight)))])

\* ------------------------------------------------------------------ tracks
Str(w) == <<W(w)>>

\* "h:mm:ss" with whole seconds
Time(sec) == <<Num(0, 1), W(":"), Num(0, 1), W(":"), Num(sec, 1)>>

AssHead(resX, resY) ==
    <<Line("section", "[Script Info]", <<>>, <<>>)>>
    \o (IF resX > 0 THEN <<Line("kv", "PlayResX", <<>>, <<<<W(" "), Num(resX, 1)>>>>)>> ELSE <<>>)
    \o (IF resY > 0 THEN <<Line("kv", "PlayResY", <<>>, <<<<W(" "), Num(resY, 1)>>>>)>> ELSE <<>>)
    \o <<Line("blank", "", <<>>, <<>>)>>

AssStyles(fontsize, marginV) ==
    <<Line("section", "[V4+ Styles]", <<>>, <<>>),
      Line("format", "Format", <<"Name", "Fontsize", "Alignment", "MarginL", "MarginR",
                                 "MarginV", "Outline">>, <<>>),
      Line("style", "Style", <<>>,
           <<<<W(" "), W("Default")>>, <<Num(fontsize, 1)>>, <<Num(2, 1)>>, <<Num(10, 1)>>,
             <<Num(10, 1)>>, <<Num(marginV, 1)>>, <<Num(2, 1)>>>>),
      Line("blank", "", <<>>, <<>>)>>

AssEvents == 
    <<Line("section", "[Events]", <<>>, <<>>),
      Line("format", "Format", <<"Layer", "Start", "End", "Style", "Text">>, <<>>)>>

\* a Dialogue: row; `pieces` are the comma-separated pieces of its text
Dialogue(start, end, pieces) ==
    Line("dialogue", "Dialogue", <<>>,
         <<<<W(" "), Num(0, 1)>>, Time(start), Time(end), Str("Default")>> \o pieces)

\* the track texts a load may fetch, by URL
Tracks ==
    [a |-> [format |-> "ass",
            lines |-> AssHead(0, 0) \o AssStyles(20, 10) \o AssEvents \o
               <<Dialogue(0, 3, <<<<Tag("fad", <<2000, 1000>>), W("Hi")>>>>),
                 Dialogue(1, 3, <<<<Tag("move", <<0, 0, 90, 60, 1000, 3000>>), W("Go")>>>>),
                 Dialogue(1, 3, <<<<Tag("move", <<10, 20, 30, 60>>), W("On")>>, <<W(" "), W("on")>>>>)>>],
     b |-> [format |-> "ass",
            lines |-> AssHead(192, 144) \o AssStyles(40, 0) \o AssEvents \o
               <<Dialogue(0, 2, <<<<Tag("fad", <<2000, 1000>>), W("Hi")>>>>),
                 Dialogue(1, 3, <<<<Tag("move", <<0, 0, 90, 60, 2000, 1000>>),
                                    Tag("fad", <<0, 2000>>), W("Up")>>>>)>>],
     m |-> [format |-> "ass",
            lines |-> AssHead(0, 0) \o AssStyles(30, 10) \o AssEvents \o
               <<Dialogue(0, 2, <<Str("One")>>),
                 Line("dialogue", "Dialogue", <<>>, <<<<W(" "), Num(0, 1)>>, Time(1)>>),
                 Dialogue(1, 3, <<Str("Two")>>)>>],
     v |-> [format |-> "vtt",
            lines |-> <<Line("webvtt", "WEBVTT", <<>>, <<>>),
                        Line("blank", "", <<>>, <<>>),
                        Line("timing", "", <<>>, <<Time(0) \o <<W(" ")>>, <<W(" ")>> \o Time(1)>>),
                        Line("text", "", <<>>, <<Str("Hello")>>),
                        Line("blank", "", <<>>, <<>>),
                        Line("text", "", <<>>, <<Str("2")>>),
                        Line("timing", "", <<>>, <<Time(1) \o <<W(" ")>>, <<W(" ")>> \o Time(3)>>),
                        Line("text", "", <<>>, <<<<W("m"), W(" "), Num(0, 1), W(" 0 l 1 1")>>>>),
                        Line("text", "", <<>>, <<Str("World")>>)>>]]

Urls == DOMAIN Tracks

\* the viewports the host may present: the video's intrinsic and client size
Viewports ==
    <<[videoWidth |-> I(0), videoHeight |-> I(0), clientWidth |-> I(0), clientHeight |-> I(0)],
      [videoWidth |-> I(640), videoHeight |-> I(480),
       clientWidth |-> I(1024), clientHeight |-> I(576)]>>

Times == {I(k) : k \in 0..MaxTime}

\* ------------------------------------------------------------ loadTrack
\* ghost: every cue of a parsed list tagged with the URL its text came from
Tagged(cues, url) == [i \in 1..Len(cues) |-> ("track" :> url) @@ cues[i]]

\* lines 24-26: format, cue list and style table are reset
Cleared(s, url, format) ==
    [s EXCEPT !.format = format, !.cues = <<>>, !.styles = <<>>, !.track = url]

\* what parseASS leaves in the renderer
InstallASS(s, ass, url) ==
    [s |-> [s EXCEPT !.cues = Tagged(ass.cues, url), !.styles = ass.styles,
                     !.assParams = ass.assParams],
     threw |-> ass.threw]

\* lines 28-32: the renderer after the parse, and whether the parse raised
Parsed(s, track, url) ==
    IF track.format = "ass" THEN InstallASS(s, parseASS(s, track.lines), url)
    ELSE [s |-> [s EXCEPT !.cues = Tagged(parseVTT(s, track.lines), url)], threw |-> FALSE]

\* lines 34-36, or the catch block when the parse raised
Finish(p, vid, win) ==
    IF p.threw THEN disable(p.s)
    ELSE resize(update([p.s EXCEPT !.isEnabled = TRUE], vid.currentTime), vid, win)

\* lines 24-36 of loadTrack and its catch: the run from the text's arrival to
\* the end of the call, with no await in between
LoadBody(s, url, vid, win) ==
    Finish(Parsed(Cleared(s, url, Tracks[url].format), Tracks[url], url), vid, win)

\* ------------------------------------------------------------------- state
VARIABLES
    this,     \* the SubtitleRenderer's fields (track: ghost, the URL last installed)
    video,    \* the video element: currentTime and sizes
    window,   \* window.innerWidth / innerHeight
    loads,    \* the loadTrack calls awaiting their fetch, in call order
    calls,    \* the number of loadTrack calls made so far
    obs       \* ghost: what the last operation did

vars == <<this, video, window, loads, calls, obs>>

NoCall == [url |-> "none", result |-> "none"]

\* ghost: the record of an operation that ran no tick: op is "tick", "install"
\* (a loadTrack call ran to its end), "fail" (its fetch failed), "threw" (its
\* parse raised) or "other".  last is the list
\* `active` the latest tick computed since the last load or disable; later is,
\* for a loadTrack call that just ended, the latest-started call that began
\* while it was awaiting and ended before it
Saw(op) == [op |-> op, ticked |-> FALSE, changed |-> FALSE, same |-> FALSE,
            hasLast |-> obs.hasLast, last |-> obs.last, later |-> NoCall]

Forget(o) == [o EXCEPT !.hasLast = FALSE, !.last = <<>>]

\* ghost: the record of an operation whose update() ran on renderer s at `time`;
\* same tells that the tick before it (with no load or disable since, unless
\* fresh) computed the same list
SawActive(op, s, active, fresh) ==
    [op |-> op, ticked |-> TRUE,
     changed |-> KeysDiffer(active, s.activeCues),
     same |-> ~fresh /\ obs.hasLast /\ obs.last = active,
     hasLast |-> TRUE,
     last |-> active,
     later |-> NoCall]

SawTick(op, s, time, fresh) ==
    IF ~s.isEnabled THEN Saw(op) ELSE SawActive(op, s, ActiveAt(s.cues, time), fresh)

\* the state after the constructor
Init ==
    /\ this = [cues |-> <<>>, activeCues |-> <<>>, format |-> "vtt",
               assParams |-> [playResX |-> I(384), playResY |-> I(288)],
               styles |-> <<>>, isEnabled |-> FALSE,
               overlay |-> [children |-> <<>>, clientWidth |-> I(0), clientHeight |-> I(0),
                            left |-> I(0), top |-> I(0)],
               activeScaleX |-> NaN, activeScaleY |-> NaN,
               track |-> "none"]
    /\ video = [currentTime |-> I(0)] @@ Viewports[1]
    /\ window = [innerWidth |-> I(768), innerHeight |-> I(576)]
    /\ loads = <<>>
    /\ calls = 0
    /\ obs = [op |-> "init", ticked |-> FALSE, changed |-> FALSE, same |-> FALSE,
              hasLast |-> FALSE, last |-> <<>>, later |-> NoCall]

\* loadTrack(url, format) up to its await fetch(url)
LoadTrack(url) ==
    /\ calls < MaxLoads
    /\ calls' = calls + 1
    /\ loads' = Append(loads, [url |-> url, later |-> NoCall])
    /\ obs' = Saw("other")
    /\ UNCHANGED <<this, video, window>>

\* ghost: the calls still awaiting once call i has ended with `result`; those
\* started before it note it as a later call that ended, unless a call started
\* later still has ended already
Ended(i, result) ==
    LET mark(j) == IF j < i /\ loads[i].later = NoCall
                     THEN [loads[j] EXCEPT !.later = [url |-> loads[i].url, result |-> result]]
                     ELSE loads[j]
    IN [j \in 1..(Len(loads) - 1) |-> IF j < i THEN mark(j) ELSE mark(j + 1)]

\* the catch block: console.error, then disable(); the call returns normally
Catch(i) ==
    /\ this' = disable(this)
    /\ loads' = Ended(i, "failed")
    /\ obs' = [Forget(Saw("fail")) EXCEPT !.later = loads[i].later]
    /\ UNCHANGED <<video, window, calls>>

\* await fetch(url) and await res.text() settle (nothing of the renderer
\* changes between the two): a rejection, a response that is not ok or a text
\* that fails to arrive enters the catch block; on a text, lines 24-41 run to
\* the end of the call
FetchSettles(i, outcome) ==
    /\ i \in 1..Len(loads)
    /\ IF outcome = "ok"
         THEN \E next \in {LoadBody(this, loads[i].url, video, window)} :
                 /\ this' = next
                 /\ loads' = Ended(i, IF next.isEnabled THEN "installed" ELSE "failed")
                 /\ obs' = [(IF next.isEnabled
                               THEN SawTick("install",
                                            [next EXCEPT !.activeCues = this.activeCues],
                                            video.currentTime, TRUE)
                               ELSE Forget(Saw("threw")))
                            EXCEPT !.later = loads[i].later]
                 /\ UNCHANGED <<video, window, calls>>
         ELSE Catch(i)

\* the host's playback tick: update()
Tick ==
    /\ this' = update(this, video.currentTime)
    /\ obs' = SawTick("tick", this, video.currentTime, FALSE)
    /\ UNCHANGED <<video, window, loads, calls>>

\* the host's resize event: resize()
Resize ==
    /\ this' = resize(this, video, window)
    /\ obs' = Saw("other")
    /\ UNCHANGED <<video, window, loads, calls>>

\* the host calls disable()
Disable ==
    /\ this' = disable(this)
    /\ obs' = Forget(Saw("other"))
    /\ UNCHANGED <<video, window, loads, calls>>

\* playback advances or the user seeks: video.currentTime changes
Seek(t) ==
    /\ t # video.currentTime
    /\ video' = [video EXCEPT !.currentTime = t]
    /\ obs' = Saw("other")
    /\ UNCHANGED <<this, window, loads, calls>>

\* the video's metadata loads and the page lays the video out
Layout(k) ==
    /\ ~Truthy(video.videoWidth)
    /\ video' = [currentTime |-> video.currentTime] @@ Viewports[k]
    /\ video' # video
    /\ obs' = Saw("other")
    /\ UNCHANGED <<this, window, loads, calls>>

Next ==
    \/ \E url \in Urls : LoadTrack(url)
    \/ \E i \in 1..MaxLoads, outcome \in {"ok", "notok", "reject"} : FetchSettles(i, outcome)
    \/ Tick
    \/ Resize
    \/ Disable
    \/ \E t \in Times : Seek(t)
    \/ \E k \in 1..Len(Viewports) : Layout(k)

Spec == Init /\ [][Next]_vars

\* ------------------------------------------------------------- properties
\* start <= t <= end, on finite numbers, by cross-multiplication
Within(cue, t) ==
    /\ cue.start.n * t.d <= t.n * cue.start.d
    /\ t.n * cue.end.d <= cue.end.n * t.d

\* the positions of the list `cues` whose cue has start <= t <= end
ActivePositions(cues, t) == {i \in 1..Len(cues) : Within(cues[i], t)}

\* the k-th smallest member of a set of positions
NthOf(P, k) == CHOOSE i \in P : Cardinality({j \in P : j <= i}) = k

\* C1: a tick while enabled computes the active list as exactly the cues with
\* start <= t <= end, in cue-list order (both boundaries included), and a tick
\* that signals a change stores that list in activeCues
C1_ActiveIsClosedInterval ==
    obs.ticked =>
        LET P == ActivePositions(this.cues, video.currentTime)
        IN /\ Len(obs.last) = Cardinality(P)
           /\ \A k \in 1..Len(obs.last) : obs.last[k] = this.cues[NthOf(P, k)]
           /\ obs.changed => this.activeCues = obs.last

\* two cues whose ranges touch at the current time are both in the list a tick
\* computed
C1_Witness ==
    /\ obs.ticked
    /\ \E i, j \in 1..Len(obs.last) :
          /\ i # j
          /\ obs.last[i].end = video.currentTime
          /\ obs.last[j].start = video.currentTime
          /\ obs.last[i].start # obs.last[i].end

\* C2: a tick that computes the same active cues as the tick before it (no
\* load or disable between them) signals no change: it neither replaces
\* activeCues nor calls render
C2_StableTickSignalsNoChange ==
    (obs.op = "tick" /\ obs.same) => ~obs.changed

C2_Witness ==
    /\ obs.op = "tick"
    /\ obs.same
    /\ ~obs.changed
    /\ obs.last # <<>>
    /\ Len(this.overlay.children) = Len(obs.last)

StyleIs(div, key, val) == key \in DOMAIN div.style /\ div.style[key] = val

\* C3: after every tick while enabled, changed or not, every displayed cue with
\* a fade has the opacity, and every displayed cue with a move the position,
\* that the animation gives for the current time
C3_AnimationsRunEveryTick ==
    (obs.op = "tick" /\ obs.ticked) =>
        \A i \in 1..Len(this.activeCues) :
            LET cue == this.activeCues[i]
                div == this.overlay.children[i]
                t == video.currentTime
                pt == MovePoint(cue, MoveProgress(cue, t))
            IN /\ HasOverride(cue, "fade") =>
                     StyleIs(div, "opacity", Plain(FadeOpacity(cue, t)))
               /\ HasOverride(cue, "move") =>
                     /\ StyleIs(div, "left", Px(Mul(pt.x, this.activeScaleX)))
                     /\ StyleIs(div, "top", Px(Mul(pt.y, this.activeScaleY)))

\* a tick that signalled no change left a fading, moving cue part-way through
\* its fade and its move
C3_Witness ==
    /\ obs.op = "tick"
    /\ obs.ticked
    /\ ~obs.changed
    /\ \E i \in 1..Len(this.activeCues) :
          /\ HasOverride(this.activeCues[i], "fade")
          /\ "opacity" \in DOMAIN this.overlay.children[i].style
          /\ Lt(I(0), this.overlay.children[i].style["opacity"].v)
          /\ Lt(this.overlay.children[i].style["opacity"].v, I(1))
    /\ \E i \in 1..Len(this.activeCues) :
          /\ HasOverride(this.activeCues[i], "move")
          /\ "left" \in DOMAIN this.overlay.children[i].style
          /\ Gt(this.overlay.children[i].style["left"].v,
                Mul(this.activeCues[i].overrides["move"].x1, this.activeScaleX))

\* C4: loadTrack installs cue list, style table and format as one step: no
\* render draws a cue of one track with the style table and format of another
C4_RenderUsesOwnTrackTables ==
    \A i \in 1..Len(this.overlay.children) :
        this.overlay.children[i].styles = this.overlay.children[i].cue.track

\* C5: of two overlapping loadTrack calls the later-started one wins: once both
\* have ended, in either order, what is installed is what the later-started
\* call produced, whatever the earlier call did
C5_LaterStartedLoadWins ==
    (obs.op \in {"install", "fail", "threw"} /\ loads = <<>> /\ obs.later.result = "installed")
        => (this.isEnabled /\ this.track = obs.later.url
            /\ \A i \in 1..Len(this.cues) : this.cues[i].track = obs.later.url)

\* C6: a failed fetch leaves the renderer disabled with cue list, active set
\* and overlay empty, and while it is disabled no tick or resize (no operation
\* at all) makes any of them non-empty
C6_FailedFetchDisables ==
    /\ obs.op = "fail" => ~this.isEnabled
    /\ ~this.isEnabled =>
          /\ this.cues = <<>>
          /\ this.activeCues = <<>>
          /\ this.overlay.children = <<>>

\* a fetch failed after a track had been installed
C6_Witness ==
    /\ obs.op = "fail"
    /\ this.track \in {"a", "b", "v"}
    /\ ~this.isEnabled

\* C7: after a failed fetch the style table holds no entry
C7_LoadErrorClearsStyles ==
    obs.op = "fail" => DOMAIN this.styles = {}

\* the cues the well-formed cue lines of each track text stand for
WellFormedCues == [a |-> 3, b |-> 2, m |-> 2, v |-> 2]

\* C8: a malformed line never aborts a parse: once a track text has arrived the
\* load ends with the renderer enabled and one cue for every well-formed cue
\* line of the text
C8_MalformedLineSkipped ==
    obs.op \in {"install", "threw"} =>
        /\ this.isEnabled
        /\ Len(this.cues) = WellFormedCues[this.track]

\* the cue [10, 13] with \fad(500,500) of the specification's example
FadeExample ==
    [start |-> I(10), end |-> I(13),
     overrides |-> [fade |-> [t1 |-> I(500), t2 |-> I(500)]]]

\* C9: after a tick, the opacity of an active cue with \fad(t1, t2), at a time
\* t in [start, end], is elapsed/t1 if elapsed < t1, else remaining/t2 if
\* remaining < t2, else 1, and lies in [0, 1]; \fad(500,500) on [10, 13] gives
\* 0.2 at t = 10.1 and at t = 12.9, and 1 at t = 11.5
C9_FadeOpacity ==
    /\ FadeOpacity(FadeExample, Q(101, 10)) = Q(1, 5)
    /\ FadeOpacity(FadeExample, Q(129, 10)) = Q(1, 5)
    /\ FadeOpacity(FadeExample, Q(23, 2)) = I(1)
    /\ (obs.op = "tick" /\ obs.ticked) =>
          \A i \in 1..Len(this.activeCues) :
              LET cue == this.activeCues[i]
                  t == video.currentTime
                  elapsed == Mul(Sub(t, cue.start), I(1000))
                  remaining == Mul(Sub(cue.end, t), I(1000))
              IN (HasOverride(cue, "fade") /\ Within(cue, t)) =>
                    /\ "opacity" \in DOMAIN this.overlay.children[i].style
                    /\ LET o == this.overlay.children[i].style["opacity"].v
                           t1 == cue.overrides["fade"].t1
                           t2 == cue.overrides["fade"].t2
                       IN /\ o.d > 0 /\ 0 <= o.n /\ o.n <= o.d
                          /\ IF elapsed.n * t1.d < t1.n * elapsed.d
                               THEN o.n * t1.n * elapsed.d = elapsed.n * t1.d * o.d
                             ELSE IF remaining.n * t2.d < t2.n * remaining.d
                               THEN o.n * t2.n * remaining.d = remaining.n * t2.d * o.d
                             ELSE o = I(1)

\* an active cue is fading out, part-way, after a tick
C9_Witness ==
    /\ obs.op = "tick"
    /\ obs.ticked
    /\ \E i \in 1..Len(this.activeCues) :
          LET cue == this.activeCues[i]
          IN /\ HasOverride(cue, "fade")
             /\ Within(cue, video.currentTime)
             /\ ~Lt(Mul(Sub(video.currentTime, cue.start), I(1000)), cue.overrides["fade"].t1)
             /\ "opacity" \in DOMAIN this.overlay.children[i].style
             /\ this.overlay.children[i].style["opacity"].v = Q(1, 2)

\* the progress the specification gives a move at `elapsed` ms
ExpectedProgress(mv, duration, elapsed) ==
    LET startTime == IF "t1" \in DOMAIN mv THEN mv.t1 ELSE I(0)
        endTime == IF "t2" \in DOMAIN mv THEN mv.t2 ELSE duration
    IN IF Le(endTime, startTime) THEN I(1)
       ELSE IF Le(elapsed, startTime) THEN I(0)
       ELSE IF Ge(elapsed, endTime) THEN I(1)
       ELSE Q((elapsed.n * startTime.d - startTime.n * elapsed.d) * endTime.d,
              (endTime.n * startTime.d - startTime.n * endTime.d) * elapsed.d)

\* C10: after a tick, an active cue with a move is placed at
\* (x1 + (x2-x1)*progress, y1 + (y2-y1)*progress) times the X and Y scale
\* factors, progress being 0 up to startTime, 1 from endTime on, linear in
\* between, and 1 whenever endTime <= startTime
C10_MoveProgress ==
    (obs.op = "tick" /\ obs.ticked) =>
        \A i \in 1..Len(this.activeCues) :
            LET cue == this.activeCues[i]
                div == this.overlay.children[i]
                t == video.currentTime
            IN HasOverride(cue, "move") =>
                  LET mv == cue.overrides["move"]
                      p == ExpectedProgress(mv, Mul(Sub(cue.end, cue.start), I(1000)),
                                            Mul(Sub(t, cue.start), I(1000)))
                      x == Add(mv.x1, Mul(Sub(mv.x2, mv.x1), p))
                      y == Add(mv.y1, Mul(Sub(mv.y2, mv.y1), p))
                  IN /\ StyleIs(div, "left", Px(Mul(x, this.activeScaleX)))
                     /\ StyleIs(div, "top", Px(Mul(y, this.activeScaleY)))

\* after a tick one moving cue is part-way along its path and another, whose
\* endTime is not after its startTime, stands at its destination
C10_Witness ==
    /\ obs.op = "tick"
    /\ obs.ticked
    /\ Truthy(this.activeScaleX)
    /\ \E i \in 1..Len(this.activeCues) :
          /\ HasOverride(this.activeCues[i], "move")
          /\ LET mv == this.activeCues[i].overrides["move"]
             IN \/ /\ "t1" \in DOMAIN mv
                   /\ Le(mv.t2, mv.t1)
                   /\ StyleIs(this.overlay.children[i], "left",
                              Px(Mul(mv.x2, this.activeScaleX)))
                \/ /\ "t1" \notin DOMAIN mv
                   /\ StyleIs(this.overlay.children[i], "left",
                              Px(Mul(Q(mv.x1.n + mv.x2.n, 2), this.activeScaleX)))

\* ============================================ the functions on their own
\* The parsers, the codecs and render are functions of their input and of the
\* renderer's fields; the specification Pure draws an input, then applies one
\* of them once.

\* the renderer after the constructor
Fresh ==
    [cues |-> <<>>, activeCues |-> <<>>, format |-> "vtt",
     assParams |-> [playResX |-> I(384), playResY |-> I(288)],
     styles |-> <<>>, isEnabled |-> FALSE,
     overlay |-> [children |-> <<>>, clientWidth |-> I(0), clientHeight |-> I(0),
                  left |-> I(0), top |-> I(0)],
     activeScaleX |-> NaN, activeScaleY |-> NaN,
     track |-> "none"]

\* nothing, or one of the members of S
Opt(S) == {<<>>} \cup {<<x>> : x \in S}

\* the cue parseASS pushes for a Dialogue of style Default with this Text
CueOf(rawText) ==
    PushCue([cues |-> <<>>], [Text |-> rawText, Style |-> <<W("Default")>>],
            I(0), I(1)).cues[1]

\* the renderer at the call of render() in update: an ASS track of one cue,
\* active, with one style, an overlay of w x h
Stage(rawText, style, w, h) ==
    [Fresh EXCEPT !.format = "ass",
                  !.isEnabled = TRUE,
                  !.cues = Tagged(<<CueOf(rawText)>>, "stage"),
                  !.activeCues = Tagged(<<CueOf(rawText)>>, "stage"),
                  !.styles = (<<W("Default")>> :> style),
                  !.overlay.clientWidth = I(w),
                  !.overlay.clientHeight = I(h),
                  !.track = "stage"]

\* a Style row of name Default with the columns given
StyleWith(cols) == [Name |-> <<W("Default")>>] @@ cols

\* overlay sizes: twice the default script resolution, and 640 x 480
StageSizes == {<<768, 576>>, <<640, 480>>}

\* Dialogue texts with and without \pos, \move, \an and \frz
AnchorTexts ==
    {p \o m \o a \o r \o <<W("T")>> :
        p \in Opt({Tag("pos", <<100, 200>>)}),
        m \in Opt({Tag("move", <<10, 20, 30, 40>>)}),
        a \in Opt({Tag("an", <<k>>) : k \in 0..9}),
        r \in Opt({Tag("frz", <<45>>)})}

AnchorStages ==
    {Stage(text, StyleWith(al), size[1], size[2]) :
        text \in AnchorTexts,
        al \in {<<>>, [Alignment |-> <<Num(5, 1)>>]},
        size \in StageSizes}

\* cues with and without \fs and \pos, styles with and without Fontsize
FontStages ==
    {Stage(f \o p \o <<W("T")>>, StyleWith(fs), size[1], size[2]) :
        f \in Opt({Tag("fs", <<30>>)}),
        p \in Opt({Tag("pos", <<100, 200>>)}),
        fs \in {<<>>, [Fontsize |-> <<Num(24, 1)>>]},
        size \in StageSizes}

\* cues with and without \bord and \shad, styles with and without Outline
\* and BackColour
OutlineStages ==
    {Stage(b \o sh \o <<W("T")>>, StyleWith(o @@ bc), size[1], size[2]) :
        b \in Opt({Tag("bord", <<0>>), Tag("bord", <<3>>)}),
        sh \in Opt({Tag("shad", <<0>>), Tag("shad", <<2>>)}),
        o \in {<<>>, [Outline |-> <<Num(0, 1)>>], [Outline |-> <<Num(1, 1)>>]},
        bc \in {<<>>, [BackColour |-> <<W("&H80000000")>>]},
        size \in StageSizes}

\* cues of every alignment without \pos or \move, styles with no margins,
\* margins of 0, margins of 20, 30 and 40, or a left margin only
MarginStages ==
    {Stage(<<Tag("an", <<k>>), W("T")>>, StyleWith(m), size[1], size[2]) :
        k \in 1..9,
        m \in {<<>>,
               [MarginL |-> <<Num(0, 1)>>, MarginR |-> <<Num(0, 1)>>, MarginV |-> <<Num(0, 1)>>],
               [MarginL |-> <<Num(20, 1)>>, MarginR |-> <<Num(30, 1)>>,
                MarginV |-> <<Num(40, 1)>>],
               [MarginL |-> <<Num(20, 1)>>]},
        size \in StageSizes}

\* the renderers render() is applied to
Stages == AnchorStages \cup FontStages \cup OutlineStages \cup MarginStages

\* -- WebVTT texts
MaxBlocks == 3

TimingLine(start, end) == Line("timing", "", <<>>, <<start \o <<W(" ")>>, <<W(" ")>> \o end>>)

TextLine(text) == Line("text", "", <<>>, <<text>>)

\* cue blocks: a timing line (the last with a start that is no number) and a
\* payload of text and drawing lines
VttBlocks ==
    {[timing |-> t, payload |-> p] :
        t \in {TimingLine(Time(0), Time(1)), TimingLine(Time(0), Time(2)),
               TimingLine(<<W("x"), W(":"), Num(0, 1)>>, Time(1))},
        p \in {<<TextLine(Str("Hello"))>>,
               <<TextLine(<<W("m"), W(" "), Num(0, 1), W(" 0 l 1 1")>>)>>,
               <<TextLine(<<W(" "), W("m"), W(" "), W(" "), W("-"), Num(5, 1)>>),
                 TextLine(Str("Hello"))>>,
               <<TextLine(Str("Hello")), TextLine(<<W("m"), Num(5, 1), W(" 0")>>),
                 TextLine(<<W("m"), W(" "), Num(-1, 2)>>), TextLine(Str("M 0 0"))>>}}

\* the lines of a file of these blocks: the header, then a blank line and a
\* block, as often as there are blocks
RECURSIVE VttLines(_)
VttLines(blocks) ==
    IF blocks = <<>> THEN <<Line("webvtt", "WEBVTT", <<>>, <<>>)>>
    ELSE VttLines(SubSeq(blocks, 1, Len(blocks) - 1))
         \o <<Line("blank", "", <<>>, <<>>), blocks[Len(blocks)].timing>>
         \o blocks[Len(blocks)].payload

\* -- timestamps
MaxParts == 4

\* timestamps of one to MaxParts parts: whole numbers, 3.500, or no number
TimeParts ==
    UNION {[1..n -> {Num(1, 1), Num(2, 1), Num(7, 2), W("x")}] : n \in 1..MaxParts}

\* the string of the parts, after a blank
TimeString(parts) == <<W(" ")>> \o Join([i \in 1..Len(parts) |-> <<parts[i]>>], W(":"))

\* -- colour tokens
MaxDigits == 8

\* tokens of up to MaxDigits hex digits, bare or between &H and &
HexTokens ==
    UNION {[1..n -> {"0", "8", "F"}] : n \in 0..MaxDigits}
    \cup {<<"&H">> \o h \o <<"&">> : h \in UNION {[1..n -> {"0", "F"}] : n \in 0..MaxDigits}}

\* -- ASS texts
MaxRows == 2

\* Events Format headers: the usual one, End before Start, Start first, no
\* Text, no End, and no header
AssFormats ==
    {<<"Layer", "Start", "End", "Style", "Text">>,
     <<"Layer", "End", "Start", "Style", "Text">>,
     <<"Start", "End", "Text">>,
     <<"Layer", "Start", "End">>,
     <<"Layer", "Start", "Style", "Text">>,
     <<>>}

\* Dialogue rows by column: times that are numbers, that have a part that is
\* no number, or whose seconds read Infinity; a text with or without a comma
AssRows ==
    {[Layer |-> <<W(" "), Num(0, 1)>>, Style |-> <<W(" "), W("Default"), W(" ")>>,
      Start |-> st, End |-> en, Text |-> tx] :
        st \in {Time(0), <<W("x"), W(":"), Num(0, 1), W(":"), Num(0, 1)>>},
        en \in {Time(1), <<Num(0, 1), W(":"), W("x"), W(":"), Num(1, 1)>>,
                <<Num(0, 1), W(":"), Num(0, 1), W(":"), W("Infinity")>>},
        tx \in {<<Str("Hi")>>, <<<<Tag("pos", <<1, 2>>), W("a")>>, <<W(" "), W("b")>>>>}}

\* the comma-separated pieces of a row written for the columns cols
RECURSIVE RowVals(_, _)
RowVals(cols, row) ==
    IF cols = <<>> THEN <<>>
    ELSE (IF Head(cols) = "Text" THEN row.Text ELSE <<row[Head(cols)]>>)
         \o RowVals(Tail(cols), row)

\* the lines of an [Events] section with the header cols, if any, and rows
AssLines(cols, rows) ==
    <<Line("section", "[Events]", <<>>, <<>>)>>
    \o (IF cols = <<>> THEN <<>> ELSE <<Line("format", "Format", cols, <<>>)>>)
    \o [i \in 1..Len(rows) |->
           Line("dialogue", "Dialogue", <<>>,
                RowVals(IF cols = <<>> THEN <<"Layer", "Start", "End", "Style", "Text">>
                        ELSE cols, rows[i]))]

\* -- override tags
MaxTags == 3

\* a Dialogue row whose text is one to MaxTags override tags, some types
\* with two values, and a word
OverrideRows ==
    {[Layer |-> <<W(" "), Num(0, 1)>>, Style |-> <<W(" "), W("Default")>>,
      Start |-> Time(0), End |-> Time(1), Text |-> <<tags \o <<W("T")>>>>] :
        tags \in UNION {[1..n -> {Tag("pos", <<1, 2>>), Tag("pos", <<3, 4>>),
                                  Tag("an", <<7>>), Tag("an", <<3>>),
                                  Tag("fs", <<30>>), Tag("fs", <<40>>),
                                  Tag("bord", <<0>>), Tag("bord", <<3>>),
                                  Tag("frz", <<45>>), Tag("fr", <<10>>),
                                  Tag("c", <<"0", "0", "F", "F">>),
                                  Tag("fad", <<100, 200>>)}] : n \in 1..MaxTags}}

\* -- playback
\* renderers of an ASS track of two cues, of text Hi or Hi1 and from 0 to 5
\* or from 10 to 15 seconds, after a tick at 0, 3 or 12 seconds
PlayingStages ==
    {update([Fresh EXCEPT !.format = "ass",
                          !.isEnabled = TRUE,
                          !.cues = Tagged(<<PushCue([cues |-> <<>>], [Text |-> c[1]],
                                                    I(c[2]), I(c[2] + 5)).cues[1],
                                            PushCue([cues |-> <<>>], [Text |-> d[1]],
                                                    I(d[2]), I(d[2] + 5)).cues[1]>>, "stage"),
                          !.overlay.clientWidth = I(768),
                          !.overlay.clientHeight = I(576),
                          !.track = "stage"], I(t)) :
        c \in {<<W("Hi")>>, <<W("Hi"), W("1")>>} \X {0, 10},
        d \in {<<W("Hi")>>, <<W("Hi"), W("1")>>} \X {0, 10},
        t \in {0, 3, 12}}

\* the arguments of the functions that take one
Inputs ==
    {[op |-> "vtt", blocks |-> b] : b \in UNION {[1..n -> VttBlocks] : n \in 1..MaxBlocks}}
    \cup {[op |-> "time", parts |-> ps] : ps \in TimeParts}
    \cup {[op |-> "colour", token |-> h] : h \in HexTokens}
    \cup {[op |-> "ass", cols |-> f, rows |-> r] :
              f \in AssFormats, r \in UNION {[1..n -> AssRows] : n \in 1..MaxRows}}
    \cup {[op |-> "ass", cols |-> <<"Layer", "Start", "End", "Style", "Text">>,
           rows |-> <<r>>] : r \in OverrideRows}

\* a staged renderer, or a fresh renderer and an argument
PureInit ==
    /\ \/ this \in Stages /\ obs = [op |-> "staged"]
       \/ this = Fresh /\ obs \in Inputs
       \/ this \in PlayingStages /\ obs \in {[op |-> "playing", time |-> t] : t \in {0, 3, 12}}
    /\ video = [currentTime |-> IF obs.op = "playing" THEN I(obs.time) ELSE I(0)]
               @@ Viewports[1]
    /\ window = [innerWidth |-> I(768), innerHeight |-> I(576)]
    /\ loads = <<>>
    /\ calls = 0

\* render() on a staged renderer
RenderStep ==
    /\ obs.op = "staged"
    /\ this' = render(this)
    /\ obs' = [op |-> "render"]
    /\ UNCHANGED <<video, window, loads, calls>>

\* parseVTT on a fresh renderer
ParseVTTStep ==
    /\ obs.op = "vtt"
    /\ this' = [this EXCEPT !.cues = parseVTT(this, VttLines(obs.blocks))]
    /\ obs' = [obs EXCEPT !.op = "parseVTT"]
    /\ UNCHANGED <<video, window, loads, calls>>

\* parseTime on a timestamp
ParseTimeStep ==
    /\ obs.op = "time"
    /\ obs' = [op |-> "parseTime", parts |-> obs.parts,
               out |-> parseTime(TimeString(obs.parts))]
    /\ UNCHANGED <<this, video, window, loads, calls>>

\* assColorToCss on a colour token
ColourStep ==
    /\ obs.op = "colour"
    /\ obs' = [op |-> "assColorToCss", token |-> obs.token,
               out |-> assColorToCss(obs.token)]
    /\ UNCHANGED <<this, video, window, loads, calls>>

\* parseASS on a fresh renderer
ParseASSStep ==
    /\ obs.op = "ass"
    /\ \E r \in {parseASS(this, AssLines(obs.cols, obs.rows))} :
          /\ this' = [this EXCEPT !.cues = r.cues, !.styles = r.styles,
                                  !.assParams = r.assParams]
          /\ obs' = [op |-> "parseASS", cols |-> obs.cols, rows |-> obs.rows,
                     threw |-> r.threw]
    /\ UNCHANGED <<video, window, loads, calls>>

\* update() on a renderer that is playing
TickStep ==
    /\ obs.op = "playing"
    /\ this' = update(this, video.currentTime)
    /\ obs' = [op |-> "update", changed |-> KeysDiffer(ActiveAt(this.cues, video.currentTime),
                                                      this.activeCues)]
    /\ UNCHANGED <<video, window, loads, calls>>

PureNext ==
    \/ TickStep
    \/ ParseASSStep
    \/ RenderStep
    \/ ParseVTTStep
    \/ ParseTimeStep
    \/ ColourStep

Pure == PureInit /\ [][PureNext]_vars

\* -------------------------------------------------------------- C11
\* the translation the numpad grid gives an alignment 1..9, in percent
GridX(a) == IF (a - 1) % 3 = 0 THEN 0 ELSE IF (a - 1) % 3 = 1 THEN -50 ELSE -100

GridY(a) == IF (a - 1) \div 3 = 0 THEN -100 ELSE IF (a - 1) \div 3 = 1 THEN -50 ELSE 0

\* the alignment in force for a cue: its \an override, else its style's
\* Alignment, else 2
EffectiveAlignment(cue, style) ==
    IF HasOverride(cue, "alignment") /\ cue.overrides["alignment"].n \in 1..9
      THEN cue.overrides["alignment"].n
    ELSE IF "Alignment" \in DOMAIN style THEN style["Alignment"][1].a[1]
    ELSE 2

\* the point a cue is anchored at: its \move start, else its \pos
AnchorPoint(cue) ==
    IF HasOverride(cue, "move")
      THEN [x |-> cue.overrides["move"].x1, y |-> cue.overrides["move"].y1]
    ELSE [x |-> cue.overrides["pos"].x, y |-> cue.overrides["pos"].y]

\* the element is translated (anchored mode)
Translated(div) ==
    "transform" \in DOMAIN div.style
        /\ \E k \in 1..Len(div.style["transform"]) : div.style["transform"][k].t = "translate"

\* C11: a rendered cue is anchored exactly when it has a \pos or \move
\* override; it then stands at the override point (move before pos) times
\* (containerWidth / playResX, containerHeight / playResY), translated by the
\* numpad grid of its alignment, a rotation coming after the translation;
\* \pos(100,200) with \an7 at scale (2, 2) stands at (200, 400), translated
\* by (0%, 0%)
C11_AnchoredPlacement ==
    obs.op = "render" =>
        LET div == this.overlay.children[1]
            cue == div.cue
            style == this.styles[<<W("Default")>>]
            a == EffectiveAlignment(cue, style)
            sx == Q(this.overlay.clientWidth.n, this.assParams.playResX.n)
            sy == Q(this.overlay.clientHeight.n, this.assParams.playResY.n)
        IN /\ Translated(div) <=> (HasOverride(cue, "pos") \/ HasOverride(cue, "move"))
           /\ Translated(div) =>
                 /\ StyleIs(div, "position", Kw("absolute"))
                 /\ StyleIs(div, "left", Px(Mul(AnchorPoint(cue).x, sx)))
                 /\ StyleIs(div, "top", Px(Mul(AnchorPoint(cue).y, sy)))
                 /\ div.style["transform"][1] = Tag("translate", <<GridX(a), GridY(a)>>)
                 /\ Len(div.style["transform"]) = IF HasOverride(cue, "rotation") THEN 2 ELSE 1
           /\ (/\ cue.rawText = <<Tag("pos", <<100, 200>>), Tag("an", <<7>>), W("T")>>
               /\ this.overlay.clientWidth = I(768)) =>
                 /\ StyleIs(div, "left", Px(I(200)))
                 /\ StyleIs(div, "top", Px(I(400)))
                 /\ div.style["transform"] = <<Tag("translate", <<0, 0>>)>>

\* a cue with \pos, \move and \an5 is rendered at the start of its move, and
\* the \pos(100,200) \an7 cue at scale (2, 2)
C11_Witness ==
    /\ obs.op = "render"
    /\ \/ /\ HasOverride(this.activeCues[1], "pos")
          /\ HasOverride(this.activeCues[1], "move")
          /\ this.activeCues[1].overrides["alignment"] = I(5)
          /\ StyleIs(this.overlay.children[1], "left", Px(Q(50, 3)))
       \/ /\ this.activeCues[1].rawText = <<Tag("pos", <<100, 200>>), Tag("an", <<7>>), W("T")>>
          /\ this.activeScaleX = I(2)
          /\ StyleIs(this.overlay.children[1], "left", Px(I(200)))

\* -------------------------------------------------------------- C12, C13
\* the payload lines of the blocks that are drawing commands
DrawingLines ==
    {TextLine(<<W("m"), W(" "), Num(0, 1), W(" 0 l 1 1")>>),
     TextLine(<<W(" "), W("m"), W(" "), W(" "), W("-"), Num(5, 1)>>),
     TextLine(<<W("m"), W(" "), Num(-1, 2)>>)}

\* the payload lines of a block that are no drawing commands, in order
KeptLines(block) == SelectSeq(block.payload, LAMBDA l : l \notin DrawingLines)

\* the text of a block: its kept lines joined by <br>
RECURSIVE BlockText(_)
BlockText(ls) ==
    IF ls = <<>> THEN <<>>
    ELSE IF Len(ls) = 1 THEN ls[1].vals[1]
    ELSE ls[1].vals[1] \o <<W("<br>")>> \o BlockText(Tail(ls))

\* the blocks that have a text, in order
TextBlocks(blocks) == SelectSeq(blocks, LAMBDA b : KeptLines(b) # <<>>)

\* block i of bs repeats block i - 1
Repeats(bs, i) ==
    i > 1 /\ bs[i].timing = bs[i - 1].timing
          /\ BlockText(KeptLines(bs[i])) = BlockText(KeptLines(bs[i - 1]))

\* the number of blocks among the first i of bs that do not repeat their
\* predecessor
RECURSIVE Runs(_, _)
Runs(bs, i) == IF i = 0 THEN 0 ELSE Runs(bs, i - 1) + (IF Repeats(bs, i) THEN 0 ELSE 1)

\* C12: in the list parseVTT produces, a block equal in (start, end, text) to
\* the cue accepted just before it is not added: consecutive identical blocks
\* collapse to one, no two adjacent cues are identical, and a cue identical
\* to an earlier cue that is not adjacent is kept
C12_AdjacentDuplicatesCollapse ==
    obs.op = "parseVTT" =>
        /\ Len(this.cues) = Runs(TextBlocks(obs.blocks), Len(TextBlocks(obs.blocks)))
        /\ \A i \in 1..(Len(this.cues) - 1) : this.cues[i] # this.cues[i + 1]

\* C13: every payload line that is a drawing command is left out of the
\* cue's text and the other lines are kept in order; a block with no line
\* left produces no cue, and the blocks after it are parsed
C13_DrawingLinesFiltered ==
    obs.op = "parseVTT" =>
        /\ \A i \in 1..Len(this.cues) :
              \E k \in 1..Len(obs.blocks) :
                 /\ KeptLines(obs.blocks[k]) # <<>>
                 /\ this.cues[i].text = BlockText(KeptLines(obs.blocks[k]))
                 /\ this.cues[i].end = parseTime(obs.blocks[k].timing.vals[2])
        /\ \A k \in 1..Len(obs.blocks) :
              KeptLines(obs.blocks[k]) # <<>> =>
                 \E i \in 1..Len(this.cues) :
                    /\ this.cues[i].text = BlockText(KeptLines(obs.blocks[k]))
                    /\ this.cues[i].end = parseTime(obs.blocks[k].timing.vals[2])
        /\ Len(this.cues) <= Len(TextBlocks(obs.blocks))

\* a block of drawing lines only stands between two blocks with text, and
\* the list holds the cues of those two, the second with its drawing line
\* filtered out
C13_Witness ==
    /\ obs.op = "parseVTT"
    /\ Len(obs.blocks) = 3
    /\ KeptLines(obs.blocks[2]) = <<>>
    /\ Len(obs.blocks[3].payload) = 2
    /\ Len(this.cues) = 2
    /\ this.cues[1].text = <<W("Hello"), W("<br>"), W("m"), Num(5, 1), W(" 0"),
                             W("<br>"), W("M 0 0")>>
    /\ this.cues[1].end = I(1)
    /\ this.cues[2].text = Str("Hello")
    /\ this.cues[2].end = I(2)

\* -------------------------------------------------------------- C14
\* the part is a whole number
Whole(part) == part.t = "num" /\ part.a[2] = 1

\* x is the number n / d
IsRatio(x, n, d) == x.d > 0 /\ x.n * d = n * x.d

\* C14: parseTime returns hours*3600 + minutes*60 + seconds for three parts,
\* minutes*60 + seconds for two parts and 0 for any other number of parts;
\* "01:02:03.500" gives 3723.5 and "02:03.500" gives 123.5
C14_ParseTime ==
    obs.op = "parseTime" =>
        LET p == obs.parts
        IN /\ (Len(p) = 3 /\ Whole(p[1]) /\ Whole(p[2]) /\ p[3].t = "num") =>
                 IsRatio(obs.out,
                         (p[1].a[1] * 3600 + p[2].a[1] * 60) * p[3].a[2] + p[3].a[1],
                         p[3].a[2])
           /\ (Len(p) = 2 /\ Whole(p[1]) /\ p[2].t = "num") =>
                 IsRatio(obs.out, p[1].a[1] * 60 * p[2].a[2] + p[2].a[1], p[2].a[2])
           /\ Len(p) \notin {2, 3} => obs.out = I(0)
           /\ p = <<Num(1, 1), Num(2, 1), Num(7, 2)>> => obs.out = Q(7447, 2)
           /\ p = <<Num(2, 1), Num(7, 2)>> => obs.out = Q(247, 2)

\* "01:02:03.500" has been parsed to 3723.5
C14_Witness ==
    /\ obs.op = "parseTime"
    /\ obs.parts = <<Num(1, 1), Num(2, 1), Num(7, 2)>>
    /\ obs.out = [n |-> 7447, d |-> 2]

\* -------------------------------------------------------------- C15
\* the hex digits of a token, without &H and &
DigitsOf(token) == SelectSeq(token, LAMBDA c : c \in {"0", "8", "F"})

\* the value of the digits, read as one hexadecimal number
RECURSIVE HexNumber(_)
HexNumber(ds) ==
    IF ds = <<>> THEN 0
    ELSE 16 * HexNumber(SubSeq(ds, 1, Len(ds) - 1))
         + (IF ds[Len(ds)] = "0" THEN 0 ELSE IF ds[Len(ds)] = "8" THEN 8 ELSE 15)

\* C15: a token of up to six digits is read, left-padded with zeros, as
\* BB GG RR: red is the last byte, blue the first, alpha is 1.00; a token of
\* exactly eight digits gives alpha = 1 - first byte / 255 rounded to two
\* decimals and reads its last six digits as BB GG RR; any other token has
\* alpha 1.00; "0000FF" is r 255, g 0, b 0, a 1.00 and "800000FF" has alpha 0.50
C15_ColourDecoding ==
    obs.op = "assColorToCss" =>
        LET len == Len(DigitsOf(obs.token))
            n == HexNumber(SubSeq(DigitsOf(obs.token), IF len = 8 THEN 3 ELSE 1, len))
            alpha == HexNumber(SubSeq(DigitsOf(obs.token), 1, 2))
            out == obs.out.a
        IN /\ len <= 6 =>
                 /\ out[1] = n % 256
                 /\ out[2] = (n \div 256) % 256
                 /\ out[3] = (n \div 65536) % 256
           /\ len = 8 =>
                 /\ out[1] = n % 256
                 /\ out[2] = (n \div 256) % 256
                 /\ out[3] = (n \div 65536) % 256
                 /\ 510 * out[4] <= 200 * (255 - alpha) + 255
                 /\ 510 * (out[4] + 1) > 200 * (255 - alpha) + 255
           /\ len # 8 => out[4] = 100
           /\ DigitsOf(obs.token) = <<"0", "0", "0", "0", "F", "F">> => out = <<255, 0, 0, 100>>
           /\ DigitsOf(obs.token) = <<"8", "0", "0", "0", "0", "0", "F", "F">> =>
                 out = <<255, 0, 0, 50>>

\* "800000FF" has been decoded, and so has the seven-digit "&HFF00000&"
C15_Witness ==
    /\ obs.op = "assColorToCss"
    /\ \/ obs.token = <<"8", "0", "0", "0", "0", "0", "F", "F">>
             /\ obs.out = Tag("rgba", <<255, 0, 0, 50>>)
       \/ obs.token = <<"&H", "F", "F", "0", "0", "0", "0", "0", "&">>
             /\ obs.out.a[4] = 100

\* -------------------------------------------------------------- C16, C17, C18
\* the number a time of the rows stands for: 0 or 1 second, no number, or
\* infinity
TimeValue(str) ==
    IF str = Time(0) THEN I(0)
    ELSE IF str = Time(1) THEN I(1)
    ELSE IF str[Len(str)] = W("Infinity") THEN [n |-> 1, d |-> 0]
    ELSE NaN

\* the rows whose times are both numbers, in order
TimedRows(rows) ==
    SelectSeq(rows, LAMBDA r : TimeValue(r.Start) # NaN /\ TimeValue(r.End) # NaN)

\* the text of a row as it stands in the line
RowText(row) ==
    IF Len(row.Text) = 1 THEN row.Text[1] ELSE row.Text[1] \o <<W(",")>> \o row.Text[2]

\* C16: the rawText of the cue of a Dialogue line decoded under a header of N
\* columns is everything after the (N-1)-th comma, further commas included,
\* and the N-1 values before it, trimmed, go to the columns in declared order
C16_TextAfterLastColumnComma ==
    obs.op = "parseASS" =>
        /\ Len(this.cues) <= Len(TimedRows(obs.rows))
        /\ \A i \in 1..Len(this.cues) :
              /\ this.cues[i].rawText = RowText(TimedRows(obs.rows)[i])
              /\ this.cues[i].styleName = <<W("Default")>>
              /\ this.cues[i].start = TimeValue(TimedRows(obs.rows)[i].Start)
              /\ this.cues[i].end = TimeValue(TimedRows(obs.rows)[i].End)

\* under the header with End before Start, a row whose text holds a comma
\* has given a cue with the whole text
C16_Witness ==
    /\ obs.op = "parseASS"
    /\ obs.cols = <<"Layer", "End", "Start", "Style", "Text">>
    /\ Len(this.cues) = 2
    /\ this.cues[2].rawText = <<Tag("pos", <<1, 2>>), W("a"), W(","), W(" "), W("b")>>
    /\ this.cues[2].start = I(0)
    /\ this.cues[2].end = I(1)

\* C17: every cue of the list parseASS produces has a finite start and a
\* finite end, Dialogue lines with another Start or End being discarded
C17_CueTimesFinite ==
    obs.op = "parseASS" =>
        \A i \in 1..Len(this.cues) :
           /\ this.cues[i].start.d # 0
           /\ this.cues[i].end.d # 0

\* C18: Dialogue lines are skipped on account of the header exactly when it
\* does not declare all of Start, End and Text; when it declares the three,
\* wherever they stand, every Dialogue line with numeric times gives a cue
C18_SkippedIffColumnMissing ==
    obs.op = "parseASS" =>
        IF {"Start", "End", "Text"} \subseteq {obs.cols[k] : k \in 1..Len(obs.cols)}
          THEN Len(this.cues) = Len(TimedRows(obs.rows))
        ELSE this.cues = <<>>

\* -------------------------------------------------------------- C19, C20
\* the number a style gives under key, or the default
StyleNumber(style, key, default) ==
    IF key \in DOMAIN style THEN I(style[key][1].a[1]) ELSE I(default)

\* C19: the font size of a rendered ASS cue is its \fs override if it has
\* one, else the Fontsize of its style, else 20, times the Y scale
C19_FontSizeOverrideWins ==
    obs.op = "render" =>
        LET div == this.overlay.children[1]
            sy == Q(this.overlay.clientHeight.n, this.assParams.playResY.n)
        IN StyleIs(div, "fontSize",
                   Px(Mul(IF HasOverride(div.cue, "fontSize")
                            THEN div.cue.overrides["fontSize"]
                          ELSE StyleNumber(this.styles[<<W("Default")>>], "Fontsize", 20),
                          sy)))

\* C20: the outline of the text shadow of a rendered ASS cue is as wide as
\* its \bord override if it has one (\bord0 gives none), else as the Outline
\* of its style, else as the default of 2, times the X scale; the shadow
\* distance is that of its \shad override if it has one
C20_BorderOverrideWins ==
    obs.op = "render" =>
        LET div == this.overlay.children[1]
            sx == Q(this.overlay.clientWidth.n, this.assParams.playResX.n)
            outline == IF HasOverride(div.cue, "border") THEN div.cue.overrides["border"]
                       ELSE StyleNumber(this.styles[<<W("Default")>>], "Outline", 2)
        IN /\ IF outline.n > 0
                THEN /\ "textShadow" \in DOMAIN div.style
                     /\ div.style["textShadow"].outline = Mul(outline, sx)
              ELSE "textShadow" \in DOMAIN div.style => div.style["textShadow"].outline = I(0)
           /\ (HasOverride(div.cue, "shadow") /\ div.cue.overrides["shadow"].n > 0) =>
                 /\ "textShadow" \in DOMAIN div.style
                 /\ div.style["textShadow"].shadow = Mul(div.cue.overrides["shadow"], sx)

\* -------------------------------------------------------------- C21
\* the position in text of the first tag named name, 0 if there is none
FirstAt(text, name) ==
    IF \A i \in 1..Len(text) : text[i].t # name THEN 0
    ELSE CHOOSE i \in 1..Len(text) :
            text[i].t = name /\ \A j \in 1..(i - 1) : text[j].t # name

\* the override key is there exactly when a tag named name occurs in text
\* and then holds what the first of them gives
FromFirst(cue, key, name, val(_)) ==
    IF FirstAt(cue.rawText, name) = 0 THEN key \notin DOMAIN cue.overrides
    ELSE /\ key \in DOMAIN cue.overrides
         /\ cue.overrides[key] = val(cue.rawText[FirstAt(cue.rawText, name)].a)

\* C21: each override field comes from the first occurrence of its own tag
\* in the cue text, whatever other tags stand before, between or after, and
\* a field whose tag does not occur is absent, not zero; the z rotation is
\* that of the first \frz, or of the first \fr when there is no \frz
C21_FirstOccurrenceWins ==
    obs.op = "parseASS" =>
        \A i \in 1..Len(this.cues) :
           LET cue == this.cues[i]
           IN /\ FromFirst(cue, "pos", "pos", LAMBDA a : [x |-> I(a[1]), y |-> I(a[2])])
              /\ FromFirst(cue, "alignment", "an", LAMBDA a : I(a[1]))
              /\ FromFirst(cue, "fontSize", "fs", LAMBDA a : I(a[1]))
              /\ FromFirst(cue, "border", "bord", LAMBDA a : I(a[1]))
              /\ FromFirst(cue, "fade", "fad", LAMBDA a : [t1 |-> I(a[1]), t2 |-> I(a[2])])
              /\ FromFirst(cue, "color", "c", LAMBDA a : Tag("rgba", <<255, 0, 0, 100>>))
              /\ IF FirstAt(cue.rawText, "frz") # 0
                   THEN FromFirst(cue, "rotation", "frz",
                                  LAMBDA a : [x |-> I(0), y |-> I(0), z |-> I(a[1])])
                 ELSE FromFirst(cue, "rotation", "fr",
                                LAMBDA a : [x |-> I(0), y |-> I(0), z |-> I(a[1])])
              /\ DOMAIN cue.overrides \subseteq
                    {"pos", "alignment", "fontSize", "border", "fade", "color", "rotation"}

\* \fs40, \pos(3,4), \fs30 in this order: the font size is 40, the position
\* (3, 4), and there are no other fields
C21_Witness ==
    /\ obs.op = "parseASS"
    /\ Len(this.cues) = 1
    /\ this.cues[1].rawText =
          <<Tag("fs", <<40>>), Tag("pos", <<3, 4>>), Tag("fs", <<30>>), W("T")>>
    /\ this.cues[1].overrides["fontSize"] = I(40)
    /\ DOMAIN this.cues[1].overrides = {"pos", "fontSize"}

\* -------------------------------------------------------------- C22
\* the text of the track declares key in a key: value line
Declares(url, key) ==
    \E i \in 1..Len(Tracks[url].lines) :
       Tracks[url].lines[i].k = "kv" /\ Tracks[url].lines[i].name = key

\* C22: playResX and playResY are positive integers after any sequence of
\* loads, and once an ASS track that declares neither PlayResX nor PlayResY
\* has been loaded they are 384 and 288, whatever was loaded before
C22_ScriptParamsDefault ==
    /\ this.assParams.playResX.d = 1 /\ this.assParams.playResX.n > 0
    /\ this.assParams.playResY.d = 1 /\ this.assParams.playResY.n > 0
    /\ (/\ obs.op = "install"
        /\ Tracks[this.track].format = "ass"
        /\ ~Declares(this.track, "PlayResX")
        /\ ~Declares(this.track, "PlayResY")) =>
           this.assParams = [playResX |-> I(384), playResY |-> I(288)]

\* -------------------------------------------------------------- C23
\* cues, active set and overlay content of a renderer
Shown(s) == <<s.cues, s.activeCues, s.overlay>>

\* C23: with playback time, viewport and track unchanged, update called
\* twice in a row leaves cues, active set and overlay content as update
\* called once does, and so does resize
C23_TickAndResizeIdempotent ==
    /\ Shown(update(update(this, video.currentTime), video.currentTime))
          = Shown(update(this, video.currentTime))
    /\ Shown(resize(resize(this, video, window), video, window))
          = Shown(resize(this, video, window))

\* a tick has drawn a fading cue at a time inside its fade, the video is
\* laid out, and neither a second tick nor two resizes in a row will change
\* what one does
C23_Witness ==
    /\ obs.op = "tick"
    /\ obs.changed
    /\ Truthy(video.videoWidth)
    /\ \E i \in 1..Len(this.overlay.children) :
          /\ HasOverride(this.overlay.children[i].cue, "fade")
          /\ Lt(this.overlay.children[i].style["opacity"].v, I(1))
    /\ update(this, video.currentTime) = this
    /\ resize(this, video, window) # this
    /\ resize(resize(this, video, window), video, window) = resize(this, video, window)

\* -------------------------------------------------------------- C24
\* C24: in flow placement a margin is the style's MarginL / MarginR /
\* MarginV where the style defines it, a defined 0 included, and 10 where it
\* does not; MarginL and MarginR are scaled by X and MarginV by Y; the
\* vertical margin is the top of alignments 7-9 and the bottom of 1-3, the
\* left margin the left of 1, 4, 7, the right margin the right of 3, 6, 9,
\* and both are the paddings of 2, 5, 8
C24_MarginsFromStyle ==
    (obs.op = "render" /\ ~Translated(this.overlay.children[1])) =>
        LET div == this.overlay.children[1]
            style == this.styles[<<W("Default")>>]
            a == EffectiveAlignment(div.cue, style)
            sx == Q(this.overlay.clientWidth.n, this.assParams.playResX.n)
            sy == Q(this.overlay.clientHeight.n, this.assParams.playResY.n)
            mL == Px(Mul(StyleNumber(style, "MarginL", 10), sx))
            mR == Px(Mul(StyleNumber(style, "MarginR", 10), sx))
            mV == Px(Mul(StyleNumber(style, "MarginV", 10), sy))
        IN /\ a \in 7..9 => StyleIs(div, "top", mV)
           /\ a \in 1..3 => StyleIs(div, "bottom", mV)
           /\ a \in {1, 4, 7} => StyleIs(div, "left", mL)
           /\ a \in {3, 6, 9} => StyleIs(div, "right", mR)
           /\ a \in {2, 5, 8} => StyleIs(div, "paddingLeft", mL) /\ StyleIs(div, "paddingRight", mR)

\* -------------------------------------------------------------- C25
\* C25: when a loadTrack call has run to its end, activeCues holds exactly
\* the cues of the track it loaded that are active at the current time, in
\* order, and the overlay shows these and no others: no cue of a track
\* loaded before remains
C25_LoadReplacesActiveSet ==
    obs.op = "install" =>
        LET P == ActivePositions(this.cues, video.currentTime)
        IN /\ Len(this.activeCues) = Cardinality(P)
           /\ \A k \in 1..Len(this.activeCues) : this.activeCues[k] = this.cues[NthOf(P, k)]
           /\ Len(this.overlay.children) = Len(this.activeCues)
           /\ \A k \in 1..Len(this.overlay.children) :
                 this.overlay.children[k].cue = this.activeCues[k]

\* -------------------------------------------------------------- C26
\* C26: after every tick of an enabled renderer, at whatever time and after
\* whatever tick before it, activeCues holds exactly the cues with
\* start <= time <= end and the overlay shows them: no change of the active
\* set goes unnoticed, two different sets never having the same fingerprint
C26_NoChangeMissed ==
    obs.op = "update" =>
        LET P == ActivePositions(this.cues, video.currentTime)
        IN /\ Len(this.activeCues) = Cardinality(P)
           /\ \A k \in 1..Cardinality(P) : this.activeCues[k] = this.cues[NthOf(P, k)]
           /\ Len(this.overlay.children) = Cardinality(P)
           /\ \A k \in 1..Cardinality(P) :
                 this.overlay.children[k].cue = this.cues[NthOf(P, k)]

\* -------------------------------------------------------------- C27
\* C27: a resize issued right after a tick, while a cue with a fade or a move
\* override is displayed, leaves that cue's element with the opacity and the
\* position the animation formulas give for the current playback time, not
\* with full opacity or at the start point
C27_ResizeKeepsAnimation ==
    [][(obs.op = "tick" /\ Resize) =>
          \A i \in 1..Len(this'.activeCues) :
              LET cue == this'.activeCues[i]
                  div == this'.overlay.children[i]
                  t == video.currentTime
              IN /\ (HasOverride(cue, "fade") /\ Within(cue, t)) =>
                        StyleIs(div, "opacity", Plain(FadeOpacity(cue, t)))
                 /\ HasOverride(cue, "move") =>
                        LET at == MovePoint(cue, MoveProgress(cue, t))
                        IN /\ StyleIs(div, "left", Px(Mul(at.x, this'.activeScaleX)))
                           /\ StyleIs(div, "top", Px(Mul(at.y, this'.activeScaleY)))]_vars

====
